---------------------------- MODULE Spec2Model ----------------------------
(***************************************************************************)
(* A model of the geometry kernel of the AcCoRD simulator (base.c): the    *)
(* shape predicates, the ray/face tests, the reflection and the point      *)
(* sampling.  Shapes carry their parameters in a vector of six slots,      *)
(* indexed from 0 as in the C source:                                      *)
(*   Rectangle / Rectangular Box : xmin xmax ymin ymax zmin zmax           *)
(*   Sphere                      : cx cy cz radius - -                     *)
(*   Cylinder                    : ax ay az radius plane length            *)
(* Coordinates are integers of a grid; the real-valued results the code    *)
(* computes from them (quotients, square roots) are held exactly.          *)
(***************************************************************************)
EXTENDS Integers, Sequences, FiniteSets, TLC

VARIABLES
    pc,             \* which call has been made on the inputs
    boundary1Type,  \* shape tag of the first boundary
    boundary1,      \* its six parameters
    boundary2Type,  \* shape tag of the second boundary
    boundary2,      \* its six parameters
    clearance,      \* clearance handed to the last call
    distError,      \* tolerance handed to bBoundaryAdjacent (in half grid units)
    ret,            \* value returned by the last call
    direction,      \* *direction written by bBoundaryAdjacent
    intersection,   \* intersection[6] written by intersectBoundary
    oldPoint,       \* start of the segment (p1)
    curPoint,       \* end of the segment
    L,              \* L[3] written by defineLine (times the length)
    length,         \* *length written by defineLine (in units of itself)
    planeID,        \* *planeID
    d,              \* *d written by bLineHitBoundary (in units of the length)
    intersectPoint, \* intersectPoint[3]
    newPoint,       \* newPoint[3] written by reflectPoint
    first,          \* the reflection that a second reflection undoes
    point,          \* point[3] handed to bPointInBoundary / uniformPointVolume
    bSurface,       \* bSurface handed to uniformPointVolume
    volume,         \* what boundaryVolume returned
    chem_rxn,       \* chem_rxn[MAX_RXNS], the reactions of the configuration
    regionArray,    \* regionArray[NUM_REGIONS]
    rxnInRegionID,  \* rxnInRegionID[j][i] as initializeRegionChemRxn filled it
    fatal,          \* the error the program exited with, "none" while it runs
    configJSON,     \* the parsed configuration file
    customSEED,     \* customSEED handed to loadConfig
    curSpec,        \* *curSpec as loadConfig filled it
    numWarn,        \* numWarn at the end of loadConfig
    bWarn,          \* bWarn at the end of loadConfig
    bWarnOverride,  \* bWarnOverride of loadConfig
    ch,             \* the character getchar() returned, "" if it was not called
    list,           \* the ListObs3D: numMolTypeObs, head, tail
    heap,           \* the allocated blocks and the buffers of the caller, by address
    given,          \* history: the observations added since the list was initialized
    initialized,    \* history: the list was not emptied since it was initialized
    queue,          \* the pending events of the scheduler
    popped,         \* history: the event popped last
    previous        \* history: the event popped before it

rayVars == <<oldPoint, curPoint, L, length, planeID, d, intersectPoint,
             newPoint, first>>

sampleVars == <<point, bSurface, volume>>

chemVars == <<chem_rxn, regionArray, rxnInRegionID>>

cfgVars == <<configJSON, customSEED, curSpec, numWarn, bWarn, bWarnOverride,
             ch>>

obsVars == <<list, heap, given, initialized>>

schedVars == <<queue, popped, previous>>

restVars == <<chemVars, cfgVars, obsVars, schedVars, fatal>>

vars == <<pc, boundary1Type, boundary1, boundary2Type, boundary2, clearance,
          distError, ret, direction, intersection, rayVars, sampleVars,
          restVars>>

ChemIdle ==
    /\ chem_rxn = <<>>
    /\ regionArray = <<>>
    /\ rxnInRegionID = <<>>

ConfigIdle ==
    /\ configJSON = <<>>
    /\ customSEED = 0
    /\ curSpec = <<>>
    /\ numWarn = 0
    /\ bWarn = FALSE
    /\ bWarnOverride = FALSE
    /\ ch = ""

ObsIdle ==
    /\ list = <<>>
    /\ heap = <<>>
    /\ given = <<>>
    /\ initialized = FALSE

NoEvent == [kind |-> "none", id |-> 0, time |-> 0]

SchedIdle ==
    /\ queue = {}
    /\ popped = NoEvent
    /\ previous = NoEvent

RestIdle ==
    /\ ConfigIdle
    /\ ObsIdle
    /\ SchedIdle
    /\ ChemIdle
    /\ fatal = "none"

-----------------------------------------------------------------------------
(* Bounds of the model *)

MaxCoord == 2
MaxCenter == 2
MaxRadius == 1
MaxLen == 1
MaxClearance == 1
MaxDistError == 3

MaxPoint == 2

\* mt_drand returns a multiple of 1 / RandDen
RandDen == 4

\* the rounds of the rejection loop that are followed
MaxRounds == 2

-----------------------------------------------------------------------------
(* Shape tags, planes and directions (base.h) *)

RECTANGLE == "Rectangle"
RECTANGULAR_BOX == "Rectangular Box"
CIRCLE == "Circle"
SPHERE == "Sphere"
CYLINDER == "Cylinder"
LINE == "Line"
UNDEFINED_SHAPE == "Undefined Shape"

ShapeTypes == {RECTANGLE, RECTANGULAR_BOX, CIRCLE, SPHERE, CYLINDER, LINE,
               UNDEFINED_SHAPE}

PLANE_XY == 0
PLANE_XZ == 1
PLANE_YZ == 2

LEFT == "LEFT"
RIGHT == "RIGHT"
DOWN == "DOWN"
UP == "UP"
DirIN == "IN"
DirOUT == "OUT"
NoDirection == "unset"

-----------------------------------------------------------------------------
(* Arithmetic helpers *)

Vec6(v0, v1, v2, v3, v4, v5) ==
    0 :> v0 @@ 1 :> v1 @@ 2 :> v2 @@ 3 :> v3 @@ 4 :> v4 @@ 5 :> v5

Vec3(v0, v1, v2) == 0 :> v0 @@ 1 :> v1 @@ 2 :> v2

squareDBL(v) == v * v

fabs(v) == IF v < 0 THEN -v ELSE v

fmin(x, y) == IF x < y THEN x ELSE y

fmax(x, y) == IF x > y THEN x ELSE y

\* sqrt(x) <= y, sqrt(x) < y and sqrt(x) = y for an integer x >= 0
SqrtLeq(x, y) == y >= 0 /\ x <= y * y

SqrtLt(x, y) == y > 0 /\ x < y * y

SqrtEq(x, y) == y >= 0 /\ x = y * y

\* the squared value of pointDistance(point1, point2)
pointDistanceSq(point1, point2) ==
    squareDBL(point2[0] - point1[0]) + squareDBL(point2[1] - point1[1])
        + squareDBL(point2[2] - point1[2])

\* the along / across1 / across2 axes of a cylinder of the given plane
Along(plane) ==
    CASE plane = PLANE_XY -> 2 [] plane = PLANE_XZ -> 1 [] plane = PLANE_YZ -> 0

Across1(plane) ==
    CASE plane = PLANE_XY -> 0 [] plane = PLANE_XZ -> 0 [] plane = PLANE_YZ -> 1

Across2(plane) ==
    CASE plane = PLANE_XY -> 1 [] plane = PLANE_XZ -> 2 [] plane = PLANE_YZ -> 2

ValidPlane(plane) == plane \in {PLANE_XY, PLANE_XZ, PLANE_YZ}

-----------------------------------------------------------------------------
(* Real numbers of the C doubles.  Where the code divides or takes a       *)
(* square root the value is held exactly as (a + b * sqrt(r)) / n, with a, *)
(* b, n, r integers, n > 0 and r free of square factors; one call of the   *)
(* code takes at most one square root, so one r serves all its values.     *)
(* The IEEE results of a division by zero and of the square root of a      *)
(* negative number are the values PInf, NInf and NaN.                      *)

RECURSIVE GCD(_, _)
GCD(x, y) == IF y = 0 THEN x ELSE GCD(y, x % y)

Abs(v) == IF v < 0 THEN -v ELSE v

RECURSIVE Num(_, _, _, _)

\* the largest s with s * s dividing r (r > 0)
SquarePart(r) ==
    LET cand == {s \in 1..r : s * s <= r /\ r % (s * s) = 0}
    IN  CHOOSE s \in cand : \A t \in cand : t <= s

NaN == [k |-> "nan", a |-> 0, b |-> 0, n |-> 1, r |-> 0]

PInf == [k |-> "pinf", a |-> 0, b |-> 0, n |-> 1, r |-> 0]

NInf == [k |-> "ninf", a |-> 0, b |-> 0, n |-> 1, r |-> 0]

\* (a + b * sqrt(r)) / n with the common factor g of a, b, n taken out
Reduced(a, b, n, r, g) ==
    [k |-> "fin", a |-> a \div g, b |-> b \div g, n |-> n \div g, r |-> r]

\* (a + b * sqrt(r)) / n for n > 0 and r free of square factors
Lowest(a, b, n, r) ==
    IF n = 1 THEN [k |-> "fin", a |-> a, b |-> b, n |-> 1, r |-> r]
    ELSE Reduced(a, b, n, r, GCD(GCD(Abs(a), Abs(b)), n))

\* (a + b * s * sqrt(r1)) / n, where sqrt(1) folds into the rational part
Folded(a, b, n, s, r1) ==
    IF r1 = 1 THEN Lowest(a + b * s, 0, n, 0) ELSE Lowest(a, b * s, n, r1)

Unsquared(a, b, n, r, s) == Folded(a, b, n, s, r \div (s * s))

\* the finite value (a + b * sqrt(r)) / n in its one normal form
Num(a, b, n, r) ==
    IF n < 0 THEN Num(-a, -b, -n, r)
    ELSE IF b = 0 \/ r <= 0 THEN Lowest(a, 0, n, 0)
    ELSE Unsquared(a, b, n, r, SquarePart(r))

NInt(i) == Num(i, 0, 1, 0)

IsFin(x) == x.k = "fin"

IsNaN(x) == x.k = "nan"

\* a rational value: the arithmetic on two of them needs no radicand
IsRat(x) == x.k = "fin" /\ x.b = 0

\* the radicand two values have in common
Rad(x, y) == IF x.b # 0 THEN x.r ELSE y.r

\* -1, 0 or 1: the sign of a value that is not NaN
NSign(x) ==
    CASE x.k = "pinf" -> 1
      [] x.k = "ninf" -> -1
      [] x.k = "fin" ->
           IF x.b = 0 THEN (IF x.a > 0 THEN 1 ELSE IF x.a < 0 THEN -1 ELSE 0)
           ELSE IF x.a = 0 THEN (IF x.b > 0 THEN 1 ELSE -1)
           ELSE IF x.a > 0 /\ x.b > 0 THEN 1
           ELSE IF x.a < 0 /\ x.b < 0 THEN -1
           ELSE IF x.a > 0
                THEN (IF x.a * x.a > x.b * x.b * x.r THEN 1 ELSE -1)
                ELSE (IF x.b * x.b * x.r > x.a * x.a THEN 1 ELSE -1)

NNeg(x) ==
    CASE x.k = "nan" -> NaN
      [] x.k = "pinf" -> NInf
      [] x.k = "ninf" -> PInf
      [] x.k = "fin" -> [x EXCEPT !.a = -x.a, !.b = -x.b]

NAdd(x, y) ==
    IF IsRat(x) /\ IsRat(y)
    THEN Lowest(x.a * y.n + y.a * x.n, 0, x.n * y.n, 0)
    ELSE IF IsNaN(x) \/ IsNaN(y) THEN NaN
    ELSE IF IsFin(x) /\ IsFin(y)
         THEN Num(x.a * y.n + y.a * x.n, x.b * y.n + y.b * x.n, x.n * y.n,
                  Rad(x, y))
    ELSE IF IsFin(x) THEN y
    ELSE IF IsFin(y) THEN x
    ELSE IF x.k = y.k THEN x ELSE NaN

NSub(x, y) == NAdd(x, NNeg(y))

NMul(x, y) ==
    IF IsRat(x) /\ IsRat(y) THEN Lowest(x.a * y.a, 0, x.n * y.n, 0)
    ELSE IF IsNaN(x) \/ IsNaN(y) THEN NaN
    ELSE IF IsFin(x) /\ IsFin(y)
         THEN Num(x.a * y.a + x.b * y.b * Rad(x, y), x.a * y.b + x.b * y.a,
                  x.n * y.n, Rad(x, y))
    ELSE IF NSign(x) = 0 \/ NSign(y) = 0 THEN NaN
    ELSE IF NSign(x) = NSign(y) THEN PInf ELSE NInf

\* x / y; a zero divisor is the +0 of the doubles
NDiv(x, y) ==
    IF IsRat(x) /\ IsRat(y) /\ y.a > 0
    THEN Lowest(x.a * y.n, 0, x.n * y.a, 0)
    ELSE IF IsRat(x) /\ IsRat(y) /\ y.a < 0
    THEN Lowest(-(x.a * y.n), 0, -(x.n * y.a), 0)
    ELSE IF IsNaN(x) \/ IsNaN(y) THEN NaN
    ELSE IF IsFin(x) /\ IsFin(y)
         THEN IF NSign(y) = 0
              THEN (IF NSign(x) = 0 THEN NaN
                    ELSE IF NSign(x) > 0 THEN PInf ELSE NInf)
              ELSE \* 1/y = n (a - b sqrt r) / (a^2 - b^2 r)
                   NMul(x, Num(y.n * y.a, -(y.n * y.b),
                               y.a * y.a - y.b * y.b * y.r, y.r))
    ELSE IF IsFin(x) THEN NInt(0)
    ELSE IF IsFin(y)
         THEN (IF (NSign(x) > 0) = (NSign(y) >= 0) THEN PInf ELSE NInf)
    ELSE NaN

\* the comparisons of doubles: false as soon as one side is NaN
IsPositive(x) == ~IsNaN(x) /\ NSign(x) = 1

NLt(x, y) ==
    IF IsRat(x) /\ IsRat(y) THEN x.a * y.n < y.a * x.n
    ELSE IsPositive(NSub(y, x))

NLeq(x, y) ==
    IF IsRat(x) /\ IsRat(y) THEN x.a * y.n <= y.a * x.n
    ELSE ~IsNaN(x) /\ ~IsNaN(y) /\ (x = y \/ NLt(x, y))

NGt(x, y) == NLt(y, x)

NGeq(x, y) == NLeq(y, x)

NEq(x, y) == ~IsNaN(x) /\ ~IsNaN(y) /\ x = y

\* sqrt of a rational value
NSqrt(x) ==
    CASE x.k = "nan" -> NaN
      [] x.k = "ninf" -> NaN
      [] x.k = "pinf" -> PInf
      [] x.k = "fin" /\ x.b = 0 ->
           IF x.a < 0 THEN NaN ELSE Num(0, 1, x.n, x.a * x.n)

NSquare(x) == NMul(x, x)

\* a point of integer coordinates as a point of doubles
NPoint(p) == Vec3(NInt(p[0]), NInt(p[1]), NInt(p[2]))

-----------------------------------------------------------------------------
(* bBoundarySurround: is boundary 1 entirely inside boundary 2 ? *)

\* the eight corners of a box
BoxCorners(b) ==
    {Vec3(b[i], b[j], b[k]) : i \in {0, 1}, j \in {2, 3}, k \in {4, 5}}

\* squared distance, in the cross-section of a cylinder, between corner
\* (b[i], b[j]) of a box and the axis of the cylinder
CornerDistSq(box, i, j, cyl) ==
    squareDBL(box[i] - cyl[Across1(cyl[4])])
        + squareDBL(box[j] - cyl[Across2(cyl[4])])

bBoundarySurround(b1Type, b1, b2Type, b2, clear) ==
    CASE b1Type \in {RECTANGLE, RECTANGULAR_BOX} ->
           (CASE b2Type \in {RECTANGLE, RECTANGULAR_BOX} ->
                   /\ b1[0] >= b2[0] + clear
                   /\ b1[1] <= b2[1] - clear
                   /\ b1[2] >= b2[2] + clear
                   /\ b1[3] <= b2[3] - clear
                   /\ b1[4] >= b2[4] + clear
                   /\ b1[5] <= b2[5] - clear
              [] b2Type = SPHERE ->
                   \* no corner with radius < distance + clearance
                   \A p1 \in BoxCorners(b1) :
                       SqrtLeq(pointDistanceSq(p1, b2), b2[3] - clear)
              [] b2Type = CYLINDER ->
                   LET along == Along(b2[4])
                       a1 == Across1(b2[4])
                       a2 == Across2(b2[4])
                       lengthcheck ==
                           /\ b1[2 * along] >= b2[along] + clear
                           /\ b1[2 * along + 1] <= b2[along] + b2[5] - clear
                       areacheck ==
                           \A i \in {2 * a1, 2 * a1 + 1} :
                             \A j \in {2 * a2, 2 * a2 + 1} :
                               SqrtLeq(CornerDistSq(b1, i, j, b2), b2[3] - clear)
                   IN  areacheck /\ lengthcheck
              [] OTHER -> FALSE)
      [] b1Type = SPHERE ->
           (CASE b2Type = RECTANGLE -> FALSE
              [] b2Type = RECTANGULAR_BOX ->
                   /\ b1[3] <= b1[0] - b2[0] - clear
                   /\ b1[3] <= b2[1] - b1[0] - clear
                   /\ b1[3] <= b1[1] - b2[2] - clear
                   /\ b1[3] <= b2[3] - b1[1] - clear
                   /\ b1[3] <= b1[2] - b2[4] - clear
                   /\ b1[3] <= b2[5] - b1[2] - clear
              [] b2Type = SPHERE ->
                   \* radius2 >= radius1 + distance + clearance
                   SqrtLeq(pointDistanceSq(b1, b2), b2[3] - b1[3] - clear)
              [] OTHER -> FALSE)
      [] b1Type = CYLINDER ->
           (CASE b2Type = RECTANGULAR_BOX ->
                   LET along == Along(b1[4])
                       a1 == Across1(b1[4])
                       a2 == Across2(b1[4])
                       lengthcheck ==
                           /\ b2[2 * along] <= b1[along] - clear
                           /\ b2[2 * along + 1] >= b1[along] + b1[5] + clear
                       areacheck ==
                           /\ b2[2 * a1] <= b1[a1] - b1[3] - clear
                           /\ b2[2 * a1 + 1] >= b1[a1] + b1[3] + clear
                           /\ b2[2 * a2] <= b1[a2] - b1[3] - clear
                           /\ b2[2 * a2 + 1] >= b1[a2] + b1[3] + clear
                   IN  areacheck /\ lengthcheck
              [] b2Type = CYLINDER ->
                   IF b1[4] = b2[4]
                   THEN IF ValidPlane(b1[4])
                        THEN LET along == Along(b1[4])
                                 a1 == Across1(b1[4])
                                 a2 == Across2(b1[4])
                                 lengthcheck ==
                                     /\ b1[along] >= b2[along] + clear
                                     /\ b1[along] + b1[5]
                                          <= b2[along] + b2[5] - clear
                                 areacheck ==
                                     SqrtLeq(squareDBL(b1[a1] - b2[a1])
                                               + squareDBL(b1[a2] - b2[a2]),
                                             b2[3] - b1[3] - clear)
                             IN  lengthcheck /\ areacheck
                        ELSE FALSE
                   ELSE FALSE
              [] OTHER -> FALSE)
      [] OTHER -> FALSE

-----------------------------------------------------------------------------
(* bBoundaryIntersect: do two boundaries overlap ? *)

\* squared distance from the centre of a sphere to the nearest point of a box
SphereBoxDistSq(sph, box) ==
    LET term(i) ==
            IF sph[i] < box[2 * i] THEN squareDBL(sph[i] - box[2 * i])
            ELSE IF sph[i] > box[2 * i + 1]
                 THEN squareDBL(sph[i] - box[2 * i + 1])
                 ELSE 0
    IN  term(0) + term(1) + term(2)

\* the cylinder / box test, shared by the two argument orders
CylinderBoxIntersect(cyl, box, clear) ==
    IF ~ValidPlane(cyl[4]) THEN FALSE
    ELSE LET along == Along(cyl[4])
             a1 == Across1(cyl[4])
             a2 == Across2(cyl[4])
             lengthcheck ==
                 /\ box[2 * along] <= cyl[along] + cyl[5] - clear
                 /\ box[2 * along + 1] >= cyl[along] + clear
             \* the four disjuncts of the source are the same expression:
             \* corner (box[2*across1], box[2*across2]) against the circle
             areacheck ==
                 \/ SqrtLeq(CornerDistSq(box, 2 * a1, 2 * a2, cyl),
                            cyl[3] - clear)
                 \/ SqrtLeq(CornerDistSq(box, 2 * a1, 2 * a2, cyl),
                            cyl[3] - clear)
                 \/ SqrtLeq(CornerDistSq(box, 2 * a1, 2 * a2, cyl),
                            cyl[3] - clear)
                 \/ SqrtLeq(CornerDistSq(box, 2 * a1, 2 * a2, cyl),
                            cyl[3] - clear)
                 \/ (/\ cyl[a1] >= box[a1 * 2]
                     /\ cyl[a1] <= box[a1 * 2 + 1]
                     /\ cyl[a2] >= box[a2 * 2]
                     /\ cyl[a2] <= box[a2 * 2 + 1])
         IN  lengthcheck /\ areacheck

bBoundaryIntersect(b1Type, b1, b2Type, b2, clear) ==
    CASE b1Type \in {RECTANGLE, RECTANGULAR_BOX} ->
           (CASE b2Type = RECTANGULAR_BOX ->
                   /\ b1[2] < b2[3] /\ b1[3] > b2[2]
                   /\ b1[0] < b2[1] /\ b1[1] > b2[0]
                   /\ b1[4] < b2[5] /\ b1[5] > b2[4]
              [] b2Type = SPHERE ->
                   /\ SphereBoxDistSq(b2, b1) < squareDBL(b2[3] + clear)
                   /\ ~bBoundarySurround(RECTANGULAR_BOX, b1, SPHERE, b2, 0)
                   /\ ~bBoundarySurround(SPHERE, b2, RECTANGULAR_BOX, b1, 0)
              [] b2Type = CYLINDER -> CylinderBoxIntersect(b2, b1, clear)
              [] OTHER -> FALSE)
      [] b1Type = SPHERE ->
           (CASE b2Type = SPHERE ->
                   /\ SqrtLt(pointDistanceSq(b1, b2), b1[3] + b2[3] + clear)
                   /\ ~SqrtLeq(pointDistanceSq(b1, b2), fabs(b1[3] - b2[3]))
              [] b2Type \in {RECTANGLE, RECTANGULAR_BOX} ->
                   /\ SphereBoxDistSq(b1, b2) < squareDBL(b1[3] + clear)
                   /\ ~bBoundarySurround(RECTANGULAR_BOX, b2, SPHERE, b1, 0)
                   /\ ~bBoundarySurround(SPHERE, b1, RECTANGULAR_BOX, b2, 0)
              [] OTHER -> FALSE)
      [] b1Type = CYLINDER ->
           (CASE b2Type = RECTANGULAR_BOX -> CylinderBoxIntersect(b1, b2, clear)
              [] OTHER -> FALSE)
      [] OTHER -> FALSE

-----------------------------------------------------------------------------
(* bBoundaryAdjacent: do two boundaries share a face ?  The result is the  *)
(* returned flag and the content of *direction after the call.             *)

Adjacent(dir) == [ret |-> TRUE, direction |-> dir]

NotAdjacent(dir) == [ret |-> FALSE, direction |-> dir]

\* overlap of the two boundaries along axis i by more than distErr
OverlapAlong(b1, b2, i, distErr) ==
    /\ b1[2 * i + 1] > b2[2 * i] + distErr
    /\ b2[2 * i + 1] > b1[2 * i] + distErr

\* FaceLower with the tolerance itself accepted
FaceLowerClosed(b1, b2, i, distErr) ==
    fabs(b1[2 * i] - b2[2 * i + 1]) <= distErr

\* boundary 2 lies at the lower / upper side of boundary 1 along axis i
FaceLower(b1, b2, i, distErr) == fabs(b1[2 * i] - b2[2 * i + 1]) < distErr

FaceUpper(b1, b2, i, distErr) == fabs(b2[2 * i] - b1[2 * i + 1]) < distErr

\* the if / else-if pair that picks the lower or the upper face of axis i
FacePick(b1, b2, i, distErr, lower, upper, dir) ==
    IF FaceLower(b1, b2, i, distErr) THEN Adjacent(lower)
    ELSE IF FaceUpper(b1, b2, i, distErr) THEN Adjacent(upper)
    ELSE NotAdjacent(dir)

\* rectangle 1 is flat along axis i and rectangle 2 lies in the same plane
SamePlane(b1, b2, i, distErr) ==
    /\ b1[2 * i] = b1[2 * i + 1]
    /\ fabs(b1[2 * i] - b2[2 * i]) < distErr
    /\ fabs(b1[2 * i] - b2[2 * i + 1]) < distErr

bBoundaryAdjacent(b1Type, b1, b2Type, b2, distErr, dir) ==
    IF \/ (b1Type = RECTANGULAR_BOX /\ b2Type = RECTANGULAR_BOX)
       \/ (b1Type = RECTANGLE /\ b2Type = RECTANGULAR_BOX)
       \/ (b1Type = RECTANGULAR_BOX /\ b2Type = RECTANGLE)
    THEN IF OverlapAlong(b1, b2, 0, distErr) /\ OverlapAlong(b1, b2, 1, distErr)
         THEN FacePick(b1, b2, 2, distErr, DirIN, DirOUT, dir)
         ELSE IF /\ OverlapAlong(b1, b2, 1, distErr)
                 /\ OverlapAlong(b1, b2, 2, distErr)
         THEN FacePick(b1, b2, 0, distErr, LEFT, RIGHT, dir)
         ELSE IF /\ OverlapAlong(b1, b2, 0, distErr)
                 /\ OverlapAlong(b1, b2, 2, distErr)
         THEN FacePick(b1, b2, 1, distErr, DOWN, UP, dir)
         ELSE NotAdjacent(dir)
    ELSE IF b1Type = RECTANGLE /\ b2Type = RECTANGLE
    THEN IF SamePlane(b1, b2, 0, distErr)                  \* both in YZ
         THEN IF OverlapAlong(b1, b2, 1, distErr)
              THEN FacePick(b1, b2, 2, distErr, DirIN, DirOUT, dir)
              ELSE IF OverlapAlong(b1, b2, 2, distErr)
              THEN FacePick(b1, b2, 1, distErr, DOWN, UP, dir)
              ELSE NotAdjacent(dir)
         ELSE IF SamePlane(b1, b2, 1, distErr)             \* both in XZ
         THEN IF OverlapAlong(b1, b2, 0, distErr)
              THEN FacePick(b1, b2, 2, distErr, DirIN, DirOUT, dir)
              ELSE IF OverlapAlong(b1, b2, 2, distErr)
              THEN FacePick(b1, b2, 0, distErr, LEFT, RIGHT, dir)
              ELSE NotAdjacent(dir)
         ELSE IF SamePlane(b1, b2, 2, distErr)             \* both in XY
         THEN IF OverlapAlong(b1, b2, 0, distErr)
              THEN FacePick(b1, b2, 1, distErr, DOWN, UP, dir)
              ELSE IF OverlapAlong(b1, b2, 1, distErr)
              THEN FacePick(b1, b2, 0, distErr, LEFT, RIGHT, dir)
              ELSE NotAdjacent(dir)
         ELSE NotAdjacent(dir)
    ELSE IF b1Type = CYLINDER /\ b2Type = CYLINDER
    THEN IF b1[4] = b2[4]
         THEN IF b1[4] = PLANE_XY
              THEN IF SqrtLt(squareDBL(b1[0] - b2[0]) + squareDBL(b1[1] - b2[1]),
                             b1[3] + b2[3] + distErr)
                   THEN IF /\ b1[2] > b2[2] + b2[5] - distErr
                           /\ b1[2] < b2[2] + b2[5] + distErr
                        THEN Adjacent(DirIN)
                        ELSE IF /\ b2[2] > b1[2] + b1[5] - distErr
                                /\ b2[2] < b1[2] + b1[5] + distErr
                        THEN Adjacent(DirOUT)
                        ELSE NotAdjacent(dir)
                   ELSE NotAdjacent(dir)
              ELSE IF b1[4] = PLANE_XZ
              THEN IF SqrtLt(squareDBL(b1[0] - b2[0]) + squareDBL(b1[2] - b2[2]),
                             b1[3] + b2[3] + distErr)
                   THEN IF /\ b1[1] > b2[1] + b2[5] - distErr
                           /\ b1[1] < b2[1] + b2[5] + distErr
                        THEN Adjacent(DOWN)
                        ELSE IF /\ b2[1] > b1[1] + b1[5] - distErr
                                /\ b2[1] < b1[1] + b1[5] + distErr
                        THEN Adjacent(UP)
                        ELSE NotAdjacent(dir)
                   ELSE NotAdjacent(dir)
              ELSE IF b1[4] = PLANE_YZ
              THEN IF SqrtLt(squareDBL(b1[1] - b2[1]) + squareDBL(b1[2] - b2[2]),
                             b1[3] + b2[3] + distErr)
                   THEN IF /\ b1[0] > b2[0] + b2[5] - distErr
                           /\ b1[0] < b2[0] + b2[5] + distErr
                        THEN Adjacent(LEFT)
                        ELSE IF /\ b2[0] > b1[0] + b1[5] - distErr
                                /\ b2[0] < b2[0] + b1[5] + distErr
                        THEN Adjacent(RIGHT)
                        ELSE NotAdjacent(dir)
                   ELSE NotAdjacent(dir)
              ELSE NotAdjacent(dir)
         ELSE NotAdjacent(dir)
    ELSE NotAdjacent(dir)

-----------------------------------------------------------------------------
(* intersectBoundary and boundaryVolume.  intersectBoundary returns the    *)
(* shape tag and leaves the intersection in intersection[6]; `old` is what *)
(* the array held before the call and `zero` is the tag whose number is 0, *)
(* which the int function returns where the source says `return false`.    *)

Zeros6 == Vec6(0, 0, 0, 0, 0, 0)

Result(type, inter) == [type |-> type, intersection |-> inter]

\* one boundary copied into the six slots of the intersection
CopyBoundary(b) == Vec6(b[0], b[1], b[2], b[3], b[4], b[5])

\* a cylinder written through its along / across1 / across2 slots
CylinderVec(plane, c1, c2, anchor, radius, len) ==
    [i \in 0..5 |->
        CASE i = 3 -> radius
          [] i = 4 -> plane
          [] i = 5 -> len
          [] i = Along(plane) -> anchor
          [] i = Across1(plane) -> c1
          [] i = Across2(plane) -> c2]

\* a box written through the slots of the axes of a cylinder's plane
BoxVec(plane, lo1, hi1, lo2, hi2, loAlong, hiAlong) ==
    [i \in 0..5 |->
        CASE i = 2 * Across1(plane) -> lo1
          [] i = 2 * Across1(plane) + 1 -> hi1
          [] i = 2 * Across2(plane) -> lo2
          [] i = 2 * Across2(plane) + 1 -> hi2
          [] i = 2 * Along(plane) -> loAlong
          [] i = 2 * Along(plane) + 1 -> hiAlong]

intersectBoundary(b1Type, b1, b2Type, b2, old, zero) ==
    IF /\ b1Type \in {RECTANGULAR_BOX, RECTANGLE}
       /\ b2Type \in {RECTANGULAR_BOX, RECTANGLE}
    THEN Result(IF b1Type = RECTANGLE /\ b2Type = RECTANGLE
                THEN RECTANGLE ELSE RECTANGULAR_BOX,
                Vec6(IF b1[0] > b2[0] THEN b1[0] ELSE b2[0],
                     IF b1[1] < b2[1] THEN b1[1] ELSE b2[1],
                     IF b1[2] > b2[2] THEN b1[2] ELSE b2[2],
                     IF b1[3] < b2[3] THEN b1[3] ELSE b2[3],
                     IF b1[4] > b2[4] THEN b1[4] ELSE b2[4],
                     IF b1[5] < b2[5] THEN b1[5] ELSE b2[5]))
    ELSE IF b1Type = SPHERE \/ b2Type = SPHERE
    THEN IF bBoundarySurround(b1Type, b1, b2Type, b2, 0)
         THEN Result(b1Type, CopyBoundary(b1))
         ELSE IF bBoundarySurround(b2Type, b2, b1Type, b1, 0)
         THEN Result(b2Type, CopyBoundary(b2))
         ELSE IF ~bBoundaryIntersect(b2Type, b2, b1Type, b1, 0)
         THEN Result(RECTANGULAR_BOX, Zeros6)
         ELSE Result(UNDEFINED_SHAPE, old)
    ELSE IF b1Type = CYLINDER /\ b2Type = CYLINDER
    THEN IF b1[4] = b2[4]
         THEN IF ~ValidPlane(b2[4]) THEN Result(zero, old)
              ELSE LET along == Along(b2[4])
                       a1 == Across1(b2[4])
                       a2 == Across2(b2[4])
                       centerDistSq == squareDBL(b1[a1] - b2[a1])
                                         + squareDBL(b1[a2] - b2[a2])
                       lower == IF b1[along] > b2[along]
                                THEN b1[along] ELSE b2[along]
                       overlap == fmin(b1[along] + b1[5], b2[along] + b2[5])
                                   - lower
                   IN  IF ~SqrtLt(centerDistSq, b1[3] + b2[3])
                       THEN Result(RECTANGULAR_BOX, Zeros6)
                       ELSE IF SqrtLeq(centerDistSq, b1[3] - b2[3])
                       THEN Result(CYLINDER,
                                   CylinderVec(b2[4], b2[a1], b2[a2], lower,
                                               b2[3], overlap))
                       ELSE IF SqrtLeq(centerDistSq, b2[3] - b1[3])
                       THEN Result(CYLINDER,
                                   CylinderVec(b1[4], b1[a1], b1[a2], lower,
                                               b1[3], overlap))
                       ELSE Result(zero, old)
         ELSE Result(zero, old)
    ELSE IF \/ (b1Type = CYLINDER /\ b2Type = RECTANGULAR_BOX)
            \/ (b1Type = RECTANGULAR_BOX /\ b2Type = CYLINDER)
    THEN LET boundaryCylinder == IF b1Type = CYLINDER THEN b1 ELSE b2
             boundaryBox == IF b1Type = CYLINDER THEN b2 ELSE b1
             plane == boundaryCylinder[4]
         IN  IF ~ValidPlane(plane) THEN Result(zero, old)
             ELSE LET along == Along(plane)
                      a1 == Across1(plane)
                      a2 == Across2(plane)
                  IN  IF \A i \in {2 * a1, 2 * a1 + 1} :
                           \A j \in {2 * a2, 2 * a2 + 1} :
                             SqrtLeq(CornerDistSq(boundaryBox, i, j,
                                                  boundaryCylinder),
                                     boundaryCylinder[3])
                      THEN Result(RECTANGULAR_BOX,
                                  BoxVec(plane,
                                         boundaryBox[a1 * 2],
                                         boundaryBox[a1 * 2 + 1],
                                         boundaryBox[a2 * 2],
                                         boundaryBox[a2 * 2 + 1],
                                         fmax(boundaryBox[along * 2],
                                              boundaryCylinder[along]),
                                         fmin(boundaryBox[along * 2 + 1],
                                              boundaryCylinder[along]
                                                + boundaryCylinder[5])))
                      ELSE IF /\ boundaryBox[a1 * 2]
                                   <= boundaryCylinder[a1] - boundaryCylinder[3]
                              /\ boundaryBox[a1 * 2 + 1]
                                   >= boundaryCylinder[a1] + boundaryCylinder[3]
                              /\ boundaryBox[a2 * 2]
                                   <= boundaryCylinder[a2] - boundaryCylinder[3]
                              /\ boundaryBox[a2 * 2 + 1]
                                   >= boundaryCylinder[a2] + boundaryCylinder[3]
                      THEN LET lower == fmax(boundaryCylinder[along],
                                             boundaryBox[along * 2])
                           IN  Result(CYLINDER,
                                      CylinderVec(plane,
                                                  boundaryCylinder[a1],
                                                  boundaryCylinder[a2],
                                                  lower,
                                                  boundaryCylinder[3],
                                                  fmin(boundaryCylinder[along]
                                                         + boundaryCylinder[5],
                                                       boundaryBox[along * 2 + 1])
                                                    - lower))
                      ELSE Result(UNDEFINED_SHAPE, old)
    ELSE Result(UNDEFINED_SHAPE, old)

\* A volume is coef * pi^pi, or the square root of coef where root is set
Volume(coef, pi, root) == [coef |-> coef, pi |-> pi, root |-> root]

NoVolume == Volume(0, 0, FALSE)

BoxInvalid(b) == b[1] < b[0] \/ b[3] < b[2] \/ b[5] < b[4]

BoxProduct(b) == (b[1] - b[0]) * (b[3] - b[2]) * (b[5] - b[4])

boundaryVolume(b1Type, b1) ==
    CASE b1Type = RECTANGLE ->
           IF BoxInvalid(b1) THEN Volume(0, 0, FALSE)
           ELSE IF b1[0] = b1[1]
           THEN Volume((b1[5] - b1[4]) * (b1[3] - b1[2]), 0, FALSE)
           ELSE IF b1[2] = b1[3]
           THEN Volume((b1[1] - b1[0]) * (b1[5] - b1[4]), 0, FALSE)
           ELSE IF b1[4] = b1[5]
           THEN Volume((b1[1] - b1[0]) * (b1[3] - b1[2]), 0, FALSE)
           \* no flat axis: control falls into the RECTANGULAR_BOX case
           ELSE Volume(BoxProduct(b1), 0, FALSE)
      [] b1Type = RECTANGULAR_BOX ->
           IF BoxInvalid(b1) THEN Volume(0, 0, FALSE)
           ELSE Volume(BoxProduct(b1), 0, FALSE)
      [] b1Type = CIRCLE -> Volume(squareDBL(b1[3]), 1, FALSE)
      [] b1Type = SPHERE ->
           Volume((4 \div 3) * b1[3] * b1[3] * b1[3], 1, FALSE)
      [] b1Type = CYLINDER -> Volume(2 * b1[3] * b1[3] * b1[5], 1, FALSE)
      [] b1Type = LINE ->
           Volume(squareDBL(b1[1] - b1[0]) + squareDBL(b1[3] - b1[2])
                    + squareDBL(b1[5] - b1[4]), 0, TRUE)
      [] OTHER -> Volume(0, 0, FALSE)

-----------------------------------------------------------------------------
(* Rays.  A distance along a ray is held in units of the length that       *)
(* defineLine measured on the segment p1 -> p2: the model's length is 1    *)
(* (0 for an empty segment, PInf for INFINITY), its L is p2 - p1 (the unit *)
(* vector times the length), and its d is the code's d divided by the      *)
(* length.  (b - p) / L, d * L + p, d > 0, d <= length and d < minDist     *)
(* read the same in either unit.                                           *)

INFINITY == PInf

\* sqrt(x) <= y, sqrt(x) == y and sqrt(x) > y on doubles, x a sum of squares
NSqrtLeq(x, y) == NGeq(y, NInt(0)) /\ NLeq(x, NSquare(y))

NSqrtEq(x, y) == NGeq(y, NInt(0)) /\ NEq(x, NSquare(y))

NSqrtGt(x, y) == NLt(y, NInt(0)) \/ NGt(x, NSquare(y))

\* the square of the len of the segment that vecL was defined on (1 if empty)
UnitSq(vecL) ==
    LET s == NAdd(NAdd(NSquare(vecL[0]), NSquare(vecL[1])), NSquare(vecL[2]))
    IN  IF NSign(s) = 0 THEN NInt(1) ELSE s

defineLine(p1, p2) ==
    LET sq == squareDBL(p2[0] - p1[0]) + squareDBL(p2[1] - p1[1])
              + squareDBL(p2[2] - p1[2])
    IN  IF sq > 0
        THEN [L |-> Vec3(NInt(p2[0] - p1[0]), NInt(p2[1] - p1[1]),
                         NInt(p2[2] - p1[2])),
              length |-> NInt(1)]
        ELSE [L |-> Vec3(NInt(0), NInt(0), NInt(0)), length |-> NInt(0)]

\* intersectPoint = d * vecL + p1
PointAt(p1, vecL, dd) ==
    Vec3(NAdd(NMul(dd, vecL[0]), p1[0]), NAdd(NMul(dd, vecL[1]), p1[1]),
         NAdd(NMul(dd, vecL[2]), p1[2]))

\* *d = (bound - p1[axis]) / vecL[axis]
PlaneDist(p1, vecL, bound, axis) == NDiv(NSub(NInt(bound), p1[axis]), vecL[axis])

\* the sum of f over the axes in axes
AxisSum(f, axes) ==
    NAdd(NAdd(IF 0 \in axes THEN f[0] ELSE NInt(0),
              IF 1 \in axes THEN f[1] ELSE NInt(0)),
         IF 2 \in axes THEN f[2] ELSE NInt(0))

\* -LDotCenterToP1 +/- sqrt(LDotCenterToP1^2 + r^2 - |centerToP1|^2) in
\* units of the length, whose square is u2
RootOf(LDotCenterToP1, centerSq, radius, u2, bInside) ==
    IF bInside
    THEN NDiv(NAdd(NNeg(LDotCenterToP1),
                   NSqrt(NAdd(NSquare(LDotCenterToP1),
                              NMul(u2, NSub(NInt(squareDBL(radius)),
                                            centerSq))))), u2)
    ELSE NDiv(NSub(NNeg(LDotCenterToP1),
                   NSqrt(NAdd(NSquare(LDotCenterToP1),
                              NMul(u2, NSub(NInt(squareDBL(radius)),
                                            centerSq))))), u2)

\* the root of the sphere formula over the axes in axes
RootDist(p1, vecL, b, axes, bInside) ==
    RootOf(AxisSum([i \in 0..2 |-> NMul(vecL[i], NSub(p1[i], NInt(b[i])))],
                   axes),
           AxisSum([i \in 0..2 |-> NSquare(NSub(p1[i], NInt(b[i])))], axes),
           b[3], UnitSq(vecL), bInside)

InRange(dd, len) == NGt(dd, NInt(0)) /\ NLeq(dd, len)

\* what the call returns once *d is dd: [ret, d, intersectPoint]
HitAt(p1, vecL, len, dd) ==
    [ret |-> InRange(dd, len), d |-> dd,
     intersectPoint |-> PointAt(p1, vecL, dd)]

\* returns [ret, d, intersectPoint]; d0 and ip0 are what *d and
\* intersectPoint held before the call
bLineHitInfinitePlane(p1, vecL, len, b1Type, b1, plane, bInside, d0, ip0) ==
    CASE b1Type = RECTANGLE ->
           HitAt(p1, vecL, len,
                 CASE plane = PLANE_XY -> PlaneDist(p1, vecL, b1[4], 2)
                   [] plane = PLANE_XZ -> PlaneDist(p1, vecL, b1[2], 1)
                   [] plane = PLANE_YZ -> PlaneDist(p1, vecL, b1[0], 0)
                   [] OTHER -> d0)
      [] b1Type = RECTANGULAR_BOX ->
           HitAt(p1, vecL, len,
                 IF plane \in 0..5
                 THEN PlaneDist(p1, vecL, b1[plane], plane \div 2)
                 ELSE d0)
      [] b1Type = SPHERE ->
           HitAt(p1, vecL, len, RootDist(p1, vecL, b1, {0, 1, 2}, bInside))
      [] OTHER -> [ret |-> FALSE, d |-> NInt(0), intersectPoint |-> ip0]

Between(v, lo, hi) == NGeq(v, NInt(lo)) /\ NLeq(v, NInt(hi))

\* the rectangle of the face across axis i
OnRectangle(p1, b1, i) ==
    \A j \in (0..2) \ {i} : Between(p1[j], b1[2 * j], b1[2 * j + 1])

bPointOnFace(p1, b1Type, b1, plane) ==
    LET box == IF plane \in 0..5 THEN OnRectangle(p1, b1, plane \div 2)
               ELSE TRUE  \* falls into case SPHERE
        cylinder ==
            IF ValidPlane(b1[4])
            THEN LET al == Along(b1[4])
                     a1 == Across1(b1[4])
                     a2 == Across2(b1[4])
                     rSq == NAdd(NSquare(NSub(p1[a1], NInt(b1[a1]))),
                                 NSquare(NSub(p1[a2], NInt(b1[a2]))))
                 IN  IF plane \in {2 * al, 2 * al + 1}
                     THEN /\ NSqrtLeq(rSq, NInt(b1[5]))
                          /\ \/ NEq(p1[al], NInt(b1[al]))
                             \/ NEq(p1[al], NInt(b1[al] + b1[5]))
                     ELSE /\ NSqrtEq(rSq, NInt(b1[5]))
                          /\ NLeq(NInt(b1[al]), p1[al])
                          \* the code reads p1[2] in every orientation
                          /\ NLeq(p1[2], NInt(b1[al] + b1[5]))
            ELSE FALSE
    IN  CASE b1Type = RECTANGLE ->
               CASE plane = PLANE_XY -> OnRectangle(p1, b1, 2)
                 [] plane = PLANE_XZ -> OnRectangle(p1, b1, 1)
                 [] plane = PLANE_YZ -> OnRectangle(p1, b1, 0)
                 [] OTHER -> box  \* falls into case RECTANGULAR_BOX
          [] b1Type = RECTANGULAR_BOX -> box
          [] b1Type = SPHERE -> TRUE
          [] b1Type = CYLINDER -> cylinder
          [] OTHER -> FALSE

\* Turn without the test against the nearest face so far
TurnLast(acc, h, onFace, curPlane) ==
    IF h.ret /\ onFace
    THEN [bIntersect |-> TRUE, planeID |-> curPlane, minDist |-> h.d,
          nearestIntersectPoint |-> h.intersectPoint,
          d |-> h.d, intersectPoint |-> h.intersectPoint]
    ELSE [acc EXCEPT !.d = h.d, !.intersectPoint = h.intersectPoint]

\* the body of the loops over the six faces: the face curPlane, hit at h
\* and on the face if onFace, is taken if it is nearer than the nearest
Turn(acc, h, onFace, curPlane) ==
    IF h.ret /\ onFace /\ NLt(h.d, acc.minDist)
    THEN [bIntersect |-> TRUE, planeID |-> curPlane, minDist |-> h.d,
          nearestIntersectPoint |-> h.intersectPoint,
          d |-> h.d, intersectPoint |-> h.intersectPoint]
    ELSE [acc EXCEPT !.d = h.d, !.intersectPoint = h.intersectPoint]

BoxTurn(acc, h, b1, curPlane) ==
    Turn(acc, h, bPointOnFace(h.intersectPoint, RECTANGULAR_BOX, b1, curPlane),
         curPlane)

\* one turn of the loop over the six faces of a box
BoxFace(acc, p1, vecL, len, b1, curPlane) ==
    BoxTurn(acc,
            bLineHitInfinitePlane(p1, vecL, len, RECTANGULAR_BOX, b1,
                                  curPlane, FALSE, acc.d, acc.intersectPoint),
            b1, curPlane)

\* what a cylinder's face gives once *d is dd
CylinderHitAt(p1, vecL, len, dd) ==
    [ret |-> InRange(dd, len), d |-> dd,
     intersectPoint |-> Vec3(NAdd(p1[0], NMul(vecL[0], dd)),
                             NAdd(p1[1], NMul(vecL[1], dd)),
                             NAdd(p1[2], NMul(vecL[2], dd)))]

\* one turn of the loop over the six faces of a cylinder along axis along
CylinderTurn(acc, p1, vecL, len, b1, curPlane, bInside, along) ==
    IF curPlane = 2 * along
    THEN Turn(acc, CylinderHitAt(p1, vecL, len,
                                 PlaneDist(p1, vecL, b1[along], along)),
              TRUE, curPlane)
    ELSE IF curPlane = 2 * along + 1
    THEN Turn(acc, CylinderHitAt(p1, vecL, len,
                                 PlaneDist(p1, vecL, b1[along] + b1[5],
                                           along)),
              TRUE, curPlane)
    ELSE IF b1[5] > 0
    THEN Turn(acc, CylinderHitAt(p1, vecL, len,
                                 RootDist(p1, vecL, b1,
                                          {Across1(b1[4]), Across2(b1[4])},
                                          bInside)),
              TRUE, curPlane)
    ELSE acc  \* continue

CylinderFace(acc, p1, vecL, len, b1, curPlane, bInside) ==
    CylinderTurn(acc, p1, vecL, len, b1, curPlane, bInside, Along(b1[4]))

RECURSIVE FaceLoop(_, _, _, _, _, _, _, _)
FaceLoop(acc, p1, vecL, len, b1Type, b1, curPlane, bInside) ==
    IF curPlane < 6
    THEN FaceLoop(IF b1Type = RECTANGULAR_BOX
                  THEN BoxFace(acc, p1, vecL, len, b1, curPlane)
                  ELSE CylinderFace(acc, p1, vecL, len, b1, curPlane, bInside),
                  p1, vecL, len, b1Type, b1, curPlane + 1, bInside)
    ELSE acc

\* the loop found a face
Found(acc) ==
    [ret |-> TRUE, planeID |-> acc.planeID, d |-> acc.minDist,
     intersectPoint |-> acc.nearestIntersectPoint]

\* the loop found none, or the face it found is given up
NotFound(acc) ==
    [ret |-> FALSE, planeID |-> acc.planeID, d |-> acc.d,
     intersectPoint |-> acc.intersectPoint]

\* the square of the distance of point n from the axis of cylinder b1
RadialSq(n, b1) ==
    NAdd(NSquare(NSub(n[Across1(b1[4])], NInt(b1[Across1(b1[4])]))),
         NSquare(NSub(n[Across2(b1[4])], NInt(b1[Across2(b1[4])]))))

BoxExit(acc) == IF acc.bIntersect THEN Found(acc) ELSE NotFound(acc)

CylinderExit(acc, b1) ==
    IF ~acc.bIntersect THEN NotFound(acc)
    ELSE IF /\ b1[5] = 0
            /\ NSqrtGt(RadialSq(acc.nearestIntersectPoint, b1), NInt(b1[3]))
    THEN NotFound(acc)
    ELSE Found(acc)

\* the rectangle is hit at h
RectangleExit(h, b1, planeID0, planeIDConst) ==
    [ret |-> /\ h.ret
             /\ bPointOnFace(h.intersectPoint, RECTANGLE, b1, planeIDConst)
             /\ NLt(h.d, INFINITY),
     planeID |-> planeID0, d |-> h.d, intersectPoint |-> h.intersectPoint]

SphereExit(h, planeID0) ==
    [ret |-> h.ret, planeID |-> planeID0, d |-> h.d,
     intersectPoint |-> h.intersectPoint]

\* the locals of bLineHitBoundary before its loops
LoopStart(planeID0, d0, ip0) ==
    [bIntersect |-> FALSE, planeID |-> planeID0, minDist |-> INFINITY,
     nearestIntersectPoint |-> ip0, d |-> d0, intersectPoint |-> ip0]

\* returns [ret, planeID, d, intersectPoint]; planeID0, d0 and ip0 are what
\* *planeID, *d and intersectPoint held before the call
bLineHitBoundary(p1, vecL, len, b1Type, b1, planeID0, planeIDConst, bInside, d0, ip0) ==
    CASE b1Type = RECTANGLE ->
           RectangleExit(bLineHitInfinitePlane(p1, vecL, len, RECTANGLE, b1,
                                               planeIDConst, FALSE, d0, ip0),
                         b1, planeID0, planeIDConst)
      [] b1Type = RECTANGULAR_BOX ->
           BoxExit(FaceLoop(LoopStart(planeID0, d0, ip0), p1, vecL, len,
                            b1Type, b1, 0, bInside))
      [] b1Type = CYLINDER ->
           IF ~ValidPlane(b1[4])
           THEN [ret |-> FALSE, planeID |-> planeID0, d |-> d0,
                 intersectPoint |-> ip0]
           ELSE CylinderExit(FaceLoop(LoopStart(planeID0, d0, ip0), p1, vecL,
                                      len, b1Type, b1, 0, bInside), b1)
      [] b1Type = SPHERE ->
           SphereExit(bLineHitInfinitePlane(p1, vecL, len, SPHERE, b1, 0,
                                            bInside, d0, ip0), planeID0)
      [] OTHER -> [ret |-> FALSE, planeID |-> planeID0, d |-> d0,
                   intersectPoint |-> ip0]

\* Mirror that puts the point on the face
MirrorOnto(cur, i, low, high) == [cur EXCEPT ![i] = NInt(low)]

\* newPoint with coordinate i mirrored to low + high - cur[i]
Mirror(cur, i, low, high) ==
    [cur EXCEPT ![i] = NSub(NAdd(NInt(low), NInt(high)), cur[i])]

\* newPoint -= dDistance * pIntMinusC over the axes in axes
ShiftedAt(cur, pIntMinusC, dDistance, axes, i) ==
    IF i \in axes THEN NSub(cur[i], NMul(dDistance, pIntMinusC[i]))
    ELSE cur[i]

Shifted(cur, pIntMinusC, dDistance, axes) ==
    Vec3(ShiftedAt(cur, pIntMinusC, dDistance, axes, 0),
         ShiftedAt(cur, pIntMinusC, dDistance, axes, 1),
         ShiftedAt(cur, pIntMinusC, dDistance, axes, 2))

RoundShift(cur, hitPoint, pIntMinusC, axes) ==
    Shifted(cur, pIntMinusC,
            NDiv(NMul(NInt(2),
                      AxisSum([i \in 0..2 |->
                                  NMul(NSub(cur[i], hitPoint[i]),
                                       pIntMinusC[i])], axes)),
                 AxisSum([i \in 0..2 |-> NSquare(pIntMinusC[i])], axes)),
            axes)

\* the reflection off a sphere, or off a mantle in the axes of its
\* cross-section
RoundReflect(cur, hitPoint, b1, axes) ==
    RoundShift(cur, hitPoint,
               Vec3(NSub(hitPoint[0], NInt(b1[0])),
                    NSub(hitPoint[1], NInt(b1[1])),
                    NSub(hitPoint[2], NInt(b1[2]))),
               axes)

\* the segment did not hit: the point is locked where the line hits at
\* any distance (h2), or at its start
Locked(old, h2) ==
    IF h2.ret
    THEN [ret |-> FALSE, newPoint |-> h2.intersectPoint,
          intersectPoint |-> h2.intersectPoint, planeID |-> h2.planeID]
    ELSE [ret |-> FALSE, newPoint |-> old, intersectPoint |-> old,
          planeID |-> h2.planeID]

Reflected(h1, r, p) ==
    [ret |-> r, newPoint |-> p, intersectPoint |-> h1.intersectPoint,
     planeID |-> h1.planeID]

\* the switch of reflectPoint on the face h1.planeID that the segment hit
ReflectOff(h1, cur, b1Type, b1) ==
    CASE b1Type = RECTANGULAR_BOX ->
           IF h1.planeID \in 0..5
           THEN Reflected(h1, TRUE, Mirror(cur, h1.planeID \div 2,
                                           b1[h1.planeID], b1[h1.planeID]))
           ELSE Reflected(h1, FALSE, cur)
      [] b1Type = SPHERE ->
           [ret |-> TRUE,
            newPoint |-> RoundReflect(cur, h1.intersectPoint, b1, {0, 1, 2}),
            intersectPoint |-> h1.intersectPoint, planeID |-> 0]
      [] b1Type = CYLINDER ->
           IF b1[4] = PLANE_XY
           THEN CASE h1.planeID = 4 ->
                       Reflected(h1, TRUE, Mirror(cur, 2, b1[2], b1[2]))
                  [] h1.planeID = 5 ->
                       Reflected(h1, TRUE, Mirror(cur, 2, b1[2] + b1[5],
                                                  b1[2] + b1[5]))
                  [] h1.planeID \in 0..3 ->
                       Reflected(h1, TRUE,
                                 RoundReflect(cur, h1.intersectPoint, b1,
                                              {0, 1}))
                  [] OTHER -> Reflected(h1, FALSE, cur)
           ELSE IF b1[4] = PLANE_XZ
           THEN CASE h1.planeID = 2 ->
                       Reflected(h1, TRUE, Mirror(cur, 1, b1[1], b1[0]))
                  [] h1.planeID = 3 ->
                       Reflected(h1, TRUE, Mirror(cur, 1, b1[1] + b1[5],
                                                  b1[1] + b1[5]))
                  [] h1.planeID \in {0, 1, 4, 5} ->
                       Reflected(h1, TRUE,
                                 RoundReflect(cur, h1.intersectPoint, b1,
                                              {0, 2}))
                  [] OTHER -> Reflected(h1, FALSE, cur)
           ELSE IF b1[4] = PLANE_YZ
           THEN CASE h1.planeID = 0 ->
                       Reflected(h1, TRUE, Mirror(cur, 0, b1[0], b1[0]))
                  [] h1.planeID = 1 ->
                       Reflected(h1, TRUE, Mirror(cur, 0, b1[0] + b1[5],
                                                  b1[0] + b1[5]))
                  [] h1.planeID \in 2..5 ->
                       Reflected(h1, TRUE,
                                 RoundReflect(cur, h1.intersectPoint, b1,
                                              {1, 2}))
                  [] OTHER -> Reflected(h1, FALSE, cur)
           ELSE Reflected(h1, FALSE, cur)
      [] OTHER -> Reflected(h1, FALSE, cur)

\* reflectPoint after its first call of bLineHitBoundary returned h1
AfterHit(h1, old, vecL, cur, b1Type, b1, bReflectInside) ==
    IF ~h1.ret
    THEN Locked(old,
                bLineHitBoundary(old, vecL, INFINITY, b1Type, b1, h1.planeID,
                                 h1.planeID, bReflectInside, h1.d,
                                 h1.intersectPoint))
    ELSE ReflectOff(h1, cur, b1Type, b1)

\* returns [ret, newPoint, intersectPoint, planeID]; planeID0 and ip0 are
\* what *planeID and intersectPoint held before the call, dist0 what the
\* local dist holds before it is assigned
reflectPoint(old, vecL, len, cur, ip0, planeID0, b1Type, b1, bReflectInside, dist0) ==
    AfterHit(bLineHitBoundary(old, vecL, len, b1Type, b1, planeID0, planeID0,
                              bReflectInside, dist0, ip0),
             old, vecL, cur, b1Type, b1, bReflectInside)

-----------------------------------------------------------------------------
(* bPointInBoundary *)

\* sqrt(sq) <= radius with the radius strictly above
WithinRadiusOpen(sq, radius) ==
    NGt(NInt(radius), NInt(0)) /\ NLt(sq, NSquare(NInt(radius)))

\* sqrt(sq) <= radius
WithinRadius(sq, radius) == NSqrtLeq(sq, NInt(radius))

\* the square of pointDistance(p, b1): b1 holds a centre in its slots 0..2
CenterSq(p, b1) ==
    NAdd(NAdd(NSquare(NSub(NInt(b1[0]), p[0])),
              NSquare(NSub(NInt(b1[1]), p[1]))),
         NSquare(NSub(NInt(b1[2]), p[2])))

bPointInBoundary(p, b1Type, b1) ==
    CASE b1Type \in {RECTANGLE, RECTANGULAR_BOX} ->
           /\ NGeq(p[0], NInt(b1[0])) /\ NLeq(p[0], NInt(b1[1]))
           /\ NGeq(p[1], NInt(b1[2])) /\ NLeq(p[1], NInt(b1[3]))
           /\ NGeq(p[2], NInt(b1[4])) /\ NLeq(p[2], NInt(b1[5]))
      [] b1Type = SPHERE -> WithinRadius(CenterSq(p, b1), b1[3])
      [] b1Type = CYLINDER ->
           IF ValidPlane(b1[4])
           THEN /\ NGeq(p[Along(b1[4])], NInt(b1[Along(b1[4])]))
                /\ NLeq(p[Along(b1[4])], NInt(b1[Along(b1[4])] + b1[5]))
                /\ WithinRadius(RadialSq(p, b1), b1[3])
           ELSE FALSE  \* falls into default
      [] OTHER -> FALSE

-----------------------------------------------------------------------------
(* uniformPoint and uniformPointVolume.  A call of mt_drand returns some   *)
(* double of [0, 1): an operator that draws is the set of the values it    *)
(* can return, one for every outcome of its draws, and a statement that    *)
(* writes into point[] takes a set of points to a set of points.           *)

mt_drand == {Num(k, 0, RandDen, 0) : k \in 0..(RandDen - 1)}

uniformPoint(rangeMin, rangeMax) ==
    {NAdd(NInt(rangeMin), NMul(NInt(rangeMax - rangeMin), u)) : u \in mt_drand}

\* (short) floor(n * mt_drand())
Faces(n) == {(n * u.a) \div u.n : u \in mt_drand}

\* point[i] = v for some v of values
Put(points, i, values) == {[p EXCEPT ![i] = v] : p \in points, v \in values}

\* point[i] = boundary1[slot]
Pin(points, i, b1, slot) == Put(points, i, {NInt(b1[slot])})

\* point[i] = uniformPoint(boundary1[2 * j], boundary1[2 * j + 1])
Spread(points, i, b1, j) == Put(points, i, uniformPoint(b1[2 * j], b1[2 * j + 1]))

\* a rectangle with bSurface: the switch on curFace within the plane
RectangleEdge(p, b1, plane, curFace) ==
    CASE plane = PLANE_XY ->
           IF curFace \in {0, 1}
           THEN Spread(Pin(Pin({p}, 2, b1, 4), 0, b1, curFace), 1, b1, 1)
           ELSE IF curFace \in {2, 3}
           THEN Pin(Spread(Pin({p}, 2, b1, 4), 0, b1, 0), 1, b1, curFace)
           ELSE Pin({p}, 2, b1, 4)
      [] plane = PLANE_XZ ->
           IF curFace \in {0, 1}
           THEN Spread(Pin(Pin({p}, 1, b1, 2), 0, b1, curFace), 2, b1, 2)
           ELSE IF curFace \in {2, 3}
           THEN Pin(Spread(Pin({p}, 1, b1, 2), 0, b1, 0), 1, b1, curFace + 2)
           ELSE Pin({p}, 1, b1, 2)
      [] plane = PLANE_YZ ->
           IF curFace \in {0, 1}
           THEN Spread(Pin(Pin({p}, 0, b1, 0), 2, b1, curFace + 4), 1, b1, 1)
           ELSE IF curFace \in {2, 3}
           THEN Pin(Spread(Pin({p}, 0, b1, 0), 2, b1, 2), 1, b1, curFace)
           ELSE Pin({p}, 0, b1, 0)
      [] OTHER -> {p}

RectangleSurface(p, b1, plane) ==
    UNION {RectangleEdge(p, b1, plane, curFace) : curFace \in Faces(4)}

\* a rectangle without bSurface: the switch on planeID
RectanglePlane(p, b1, plane) ==
    CASE plane = PLANE_XY ->
           Pin(Spread(Spread({p}, 0, b1, 0), 1, b1, 1), 2, b1, 4)
      [] plane = PLANE_XZ ->
           Spread(Pin(Spread({p}, 0, b1, 0), 1, b1, 2), 2, b1, 2)
      [] plane = PLANE_YZ ->
           Spread(Spread(Pin({p}, 0, b1, 0), 1, b1, 1), 2, b1, 2)

\* a box with bSurface: the switch on curFace
BoxSide(p, b1, curFace) ==
    CASE curFace \in {0, 1} ->
           Spread(Spread(Pin({p}, 0, b1, curFace), 1, b1, 1), 2, b1, 2)
      [] curFace \in {2, 3} ->
           Spread(Pin(Spread({p}, 0, b1, 0), 1, b1, curFace), 2, b1, 2)
      [] curFace \in {4, 5} ->
           Pin(Spread(Spread({p}, 0, b1, 0), 1, b1, 1), 2, b1, curFace)
      [] OTHER -> {p}

BoxSurface(p, b1) == UNION {BoxSide(p, b1, curFace) : curFace \in Faces(6)}

BoxInterior(points, b1) ==
    Spread(Spread(Spread(points, 0, b1, 0), 1, b1, 1), 2, b1, 2)

\* case RECTANGULAR_BOX
BoxPoint(points, b1, surface) ==
    IF surface THEN UNION {BoxSurface(p, b1) : p \in points}
    ELSE BoxInterior(points, b1)

\* case RECTANGLE; without bSurface the switch on planeID ends in a break
\* and the code runs on into case RECTANGULAR_BOX
RectanglePoint(p, b1, surface, plane) ==
    IF surface THEN RectangleSurface(p, b1, plane)
    ELSE IF ValidPlane(plane)
    THEN BoxPoint(RectanglePlane(p, b1, plane), b1, surface)
    ELSE {p}

\* rSq = squareDBL(point[0]) + squareDBL(point[1]) + squareDBL(point[2])
SquareSum(p) == NAdd(NAdd(NSquare(p[0]), NSquare(p[1])), NSquare(p[2]))

\* if (mt_drand() > 0.5) point[i] = -point[i]
Flip(points, i) ==
    {IF NGt(u, Num(1, 0, 2, 0)) THEN [p EXCEPT ![i] = NNeg(p[i])] ELSE p :
        p \in points, u \in mt_drand}

\* point[i] /= r
Normalised(p, r) == Vec3(NDiv(p[0], r), NDiv(p[1], r), NDiv(p[2], r))

\* point[i] = boundary1[i] + point[i] * boundary1[3]
Scaled(p, b1) ==
    Vec3(NAdd(NInt(b1[0]), NMul(p[0], NInt(b1[3]))),
         NAdd(NInt(b1[1]), NMul(p[1], NInt(b1[3]))),
         NAdd(NInt(b1[2]), NMul(p[2], NInt(b1[3]))))

\* a point of the unit cube with rSq < 1 was found
SphereAccept(p, rSq, b1, surface) ==
    {Scaled(IF surface THEN Normalised(q, NSqrt(rSq)) ELSE q, b1) :
        q \in Flip(Flip(Flip({p}, 0), 1), 2)}

RECURSIVE SphereLoop(_, _, _, _)

\* the body of the loop once the three coordinates are drawn
SphereRound(p, rSq, b1, surface, rounds) ==
    IF NLt(rSq, NInt(1)) THEN SphereAccept(p, rSq, b1, surface)
    ELSE SphereLoop({p}, b1, surface, rounds - 1)

\* while (bNeedPoint), followed for the given number of rounds
SphereLoop(points, b1, surface, rounds) ==
    IF rounds = 0 THEN {}
    ELSE UNION {SphereRound(p, SquareSum(p), b1, surface, rounds) :
                   p \in Put(Put(Put(points, 0, mt_drand), 1, mt_drand),
                             2, mt_drand)}

\* the points the call can leave in point[], p being what it held before
uniformPointVolume(p, boundaryType, b1, surface, plane) ==
    CASE boundaryType = RECTANGLE -> RectanglePoint(p, b1, surface, plane)
      [] boundaryType = RECTANGULAR_BOX -> BoxPoint({p}, b1, surface)
      [] boundaryType = CIRCLE -> {p}
      [] boundaryType = SPHERE -> SphereLoop({p}, b1, surface, MaxRounds)
      [] OTHER -> {p}

-----------------------------------------------------------------------------
(* The shapes the calls are made on *)

NonFlat(m) == {iv \in (0..m) \X (0..m) : iv[1] < iv[2]}

Flat(m) == {<<x, x>> : x \in 0..m}

BoxOf(x, y, z) == Vec6(x[1], x[2], y[1], y[2], z[1], z[2])

\* boxes of positive extent along every axis
Boxes ==
    {BoxOf(x, y, z) : x \in NonFlat(MaxCoord), y \in NonFlat(MaxCoord),
                      z \in NonFlat(MaxCoord)}

\* rectangles: flat along exactly one axis
Rectangles ==
    {BoxOf(x, y, z) : x \in Flat(MaxCoord), y \in NonFlat(MaxCoord),
                      z \in NonFlat(MaxCoord)}
    \cup {BoxOf(x, y, z) : x \in NonFlat(MaxCoord), y \in Flat(MaxCoord),
                           z \in NonFlat(MaxCoord)}
    \cup {BoxOf(x, y, z) : x \in NonFlat(MaxCoord), y \in NonFlat(MaxCoord),
                           z \in Flat(MaxCoord)}

Spheres ==
    {Vec6(c[1], c[2], c[3], r, 0, 0) :
        c \in (0..MaxCenter) \X (0..MaxCenter) \X (0..MaxCenter),
        r \in 1..MaxRadius}

Cylinders ==
    {Vec6(c[1], c[2], c[3], r[1], r[2], r[3]) :
        c \in (0..MaxCenter) \X (0..MaxCenter) \X (0..MaxCenter),
        r \in (1..MaxRadius) \X {PLANE_XY, PLANE_XZ, PLANE_YZ} \X (0..MaxLen)}

ShapesOf(type) ==
    CASE type = RECTANGLE -> Rectangles
      [] type = RECTANGULAR_BOX -> Boxes
      [] type = SPHERE -> Spheres
      [] type = CYLINDER -> Cylinders

\* twice the parameters: the lengths of a boundary in half grid units
InHalfUnits(type, b) ==
    [i \in 0..5 |-> IF type = CYLINDER /\ i = 4 THEN b[i] ELSE 2 * b[i]]

-----------------------------------------------------------------------------
(* Calls on a pair of boundaries *)

pairVars == <<boundary1Type, boundary1, boundary2Type, boundary2>>

Origin == Vec3(0, 0, 0)

NoReflection == [curPoint |-> Origin, planeID |-> 0]

\* no segment: the calls on a pair of boundaries take none
RayIdle ==
    /\ oldPoint = Origin
    /\ curPoint = Origin
    /\ L = NPoint(Origin)
    /\ length = NInt(0)
    /\ planeID = 0
    /\ d = NInt(0)
    /\ intersectPoint = NPoint(Origin)
    /\ newPoint = NPoint(Origin)
    /\ first = NoReflection

\* no point to test or to write
SampleIdle ==
    /\ point = NPoint(Origin)
    /\ bSurface = FALSE
    /\ volume = NoVolume

InitPair(types1, types2) ==
    /\ pc = "input"
    /\ RestIdle
    /\ boundary1Type \in types1
    /\ boundary1 \in ShapesOf(boundary1Type)
    /\ boundary2Type \in types2
    /\ boundary2 \in ShapesOf(boundary2Type)
    /\ clearance = 0
    /\ distError = 0
    /\ ret = FALSE
    /\ direction = NoDirection
    /\ intersection = Zeros6
    /\ RayIdle
    /\ SampleIdle

CallIntersect ==
    /\ pc = "input"
    /\ \E c \in 0..MaxClearance :
         /\ clearance' = c
         /\ ret' = bBoundaryIntersect(boundary1Type, boundary1,
                                      boundary2Type, boundary2, c)
    /\ pc' = "bBoundaryIntersect"
    /\ UNCHANGED <<restVars, pairVars, distError, direction, intersection, rayVars,
                   sampleVars>>

CallSurround ==
    /\ pc = "input"
    /\ \E c \in 0..MaxClearance :
         /\ clearance' = c
         /\ ret' = bBoundarySurround(boundary1Type, boundary1,
                                     boundary2Type, boundary2, c)
    /\ pc' = "bBoundarySurround"
    /\ UNCHANGED <<restVars, pairVars, distError, direction, intersection, rayVars,
                   sampleVars>>

\* distError is a number of half grid units, so the boundaries are handed
\* over in half grid units as well
CallAdjacent ==
    /\ pc = "input"
    /\ \E e \in 1..MaxDistError :
         LET r == bBoundaryAdjacent(boundary1Type,
                                    InHalfUnits(boundary1Type, boundary1),
                                    boundary2Type,
                                    InHalfUnits(boundary2Type, boundary2),
                                    e, direction)
         IN  /\ distError' = e
             /\ ret' = r.ret
             /\ direction' = r.direction
    /\ pc' = "bBoundaryAdjacent"
    /\ UNCHANGED <<restVars, pairVars, clearance, intersection, rayVars, sampleVars>>

CallIntersectBoundary ==
    /\ pc = "input"
    /\ \E zero \in ShapeTypes :
         LET r == intersectBoundary(boundary1Type, boundary1,
                                    boundary2Type, boundary2,
                                    intersection, zero)
         IN  /\ ret' = r.type
             /\ intersection' = r.intersection
    /\ pc' = "intersectBoundary"
    /\ UNCHANGED <<restVars, pairVars, clearance, distError, direction, rayVars,
                   sampleVars>>

\* every pair of shapes
InitShapes ==
    InitPair({RECTANGULAR_BOX, SPHERE, CYLINDER},
             {RECTANGULAR_BOX, SPHERE, CYLINDER})

NextShapes ==
    \/ CallIntersect
    \/ CallSurround
    \/ CallIntersectBoundary

SpecShapes == InitShapes /\ [][NextShapes]_vars

\* boxes and rectangles, for bBoundaryAdjacent
InitAdjacent ==
    /\ InitPair({RECTANGLE, RECTANGULAR_BOX}, {RECTANGLE, RECTANGULAR_BOX})
    /\ RECTANGULAR_BOX \in {boundary1Type, boundary2Type}

NextAdjacent == CallAdjacent

SpecAdjacent == InitAdjacent /\ [][NextAdjacent]_vars

-----------------------------------------------------------------------------
(* Calls on a segment and a boundary *)

Points ==
    {Vec3(x, y, z) : x \in 0..MaxPoint, y \in 0..MaxPoint, z \in 0..MaxPoint}

\* cylinders of positive length about the middle of the grid, their lower
\* cap at 0 or 1
RayCylinders ==
    {c \in Cylinders : /\ c[Across1(c[4])] = 1
                        /\ c[Across2(c[4])] = 1
                        /\ c[Along(c[4])] <= 1
                        /\ c[5] > 0}

\* rectangles that span the grid of the boxes
RayRectangles ==
    {r \in Rectangles : \A i \in 0..2 : r[2 * i] = r[2 * i + 1]
                                         \/ r[2 * i + 1] - r[2 * i] = MaxCoord}

RayShapesOf(type) ==
    CASE type = RECTANGLE -> RayRectangles
      [] type = RECTANGULAR_BOX -> Boxes
      [] type = CYLINDER -> RayCylinders

\* the plane a caller names for a rectangle is the plane it lies in; the
\* other shapes write *planeID themselves
PlanesOf(type, b) ==
    IF type # RECTANGLE THEN {0}
    ELSE IF b[4] = b[5] THEN {PLANE_XY}
    ELSE IF b[2] = b[3] THEN {PLANE_XZ}
    ELSE {PLANE_YZ}

\* bInside is read for the round faces only
Sides(type) ==
    IF type \in {RECTANGLE, RECTANGULAR_BOX} THEN {TRUE} ELSE BOOLEAN

\* a segment oldPoint -> curPoint with its line from defineLine, and a
\* boundary
InitRay(types) ==
    /\ pc = "input"
    /\ RestIdle
    /\ boundary1Type \in types
    /\ boundary1 \in RayShapesOf(boundary1Type)
    /\ boundary2Type = UNDEFINED_SHAPE
    /\ boundary2 = Zeros6
    /\ clearance = 0
    /\ distError = 0
    /\ ret = FALSE
    /\ direction = NoDirection
    /\ intersection = Zeros6
    /\ oldPoint \in Points
    /\ curPoint \in Points
    /\ L = defineLine(oldPoint, curPoint).L
    /\ length = defineLine(oldPoint, curPoint).length
    /\ planeID \in PlanesOf(boundary1Type, boundary1)
    /\ d = NInt(0)
    /\ intersectPoint = NPoint(Origin)
    /\ newPoint = NPoint(Origin)
    /\ first = NoReflection
    /\ SampleIdle

rayIdle == <<boundary1Type, boundary1, boundary2Type, boundary2, clearance,
             distError, direction, intersection, sampleVars>>

CallLineHit ==
    /\ pc = "input"
    /\ \E bInside \in Sides(boundary1Type) :
         \E r \in {bLineHitBoundary(NPoint(oldPoint), L, length,
                                    boundary1Type, boundary1, planeID, planeID,
                                    bInside, d, intersectPoint)} :
             /\ ret' = r.ret
             /\ planeID' = r.planeID
             /\ d' = r.d
             /\ intersectPoint' = r.intersectPoint
    /\ pc' = "bLineHitBoundary"
    /\ UNCHANGED <<restVars, rayIdle, oldPoint, curPoint, L, length, newPoint, first>>

CallReflect ==
    /\ pc = "input"
    /\ \E bReflectInside \in Sides(boundary1Type) :
         \E r \in {reflectPoint(NPoint(oldPoint), L, length,
                                NPoint(curPoint), intersectPoint, planeID,
                                boundary1Type, boundary1, bReflectInside, d)} :
             /\ ret' = r.ret
             /\ newPoint' = r.newPoint
             /\ intersectPoint' = r.intersectPoint
             /\ planeID' = r.planeID
    /\ pc' = "reflectPoint"
    /\ UNCHANGED <<restVars, rayIdle, oldPoint, curPoint, L, length, d, first>>

IsGridPoint(p) == \A i \in 0..2 : IsFin(p[i]) /\ p[i].b = 0 /\ p[i].n = 1

GridPoint(p) == [i \in 0..2 |-> p[i].a]

\* the point a reflection returned is reflected again, on the segment that
\* leads from the point it came from to it
CallReflectBack ==
    /\ pc = "reflectPoint"
    /\ ret = TRUE
    /\ IsGridPoint(newPoint)
    /\ \E line \in {defineLine(curPoint, GridPoint(newPoint))} :
           /\ oldPoint' = curPoint
           /\ curPoint' = GridPoint(newPoint)
           /\ L' = line.L
           /\ length' = line.length
           /\ first' = [curPoint |-> curPoint, planeID |-> planeID]
           /\ \E bReflectInside \in Sides(boundary1Type) :
                \E r \in {reflectPoint(NPoint(curPoint), line.L, line.length,
                                       newPoint, intersectPoint, planeID,
                                       boundary1Type, boundary1,
                                       bReflectInside, d)} :
                    /\ ret' = r.ret
                    /\ newPoint' = r.newPoint
                    /\ intersectPoint' = r.intersectPoint
                    /\ planeID' = r.planeID
    /\ pc' = "reflectBack"
    /\ UNCHANGED <<restVars, rayIdle, d>>

InitLineHit == InitRay({RECTANGULAR_BOX})

NextLineHit == CallLineHit

SpecLineHit == InitLineHit /\ [][NextLineHit]_vars

InitReflect == InitRay({RECTANGLE, RECTANGULAR_BOX, CYLINDER})

NextReflect ==
    \/ CallReflect
    \/ CallReflectBack

SpecReflect == InitReflect /\ [][NextReflect]_vars

-----------------------------------------------------------------------------
(* Calls on a point and a boundary *)

\* what point[] can hold before uniformPointVolume writes into it: a point
\* of every shape and a point of none
PriorPoints ==
    {NPoint(Vec3(v, v, v)) : v \in {0, MaxCenter + MaxRadius + MaxLen + 1}}

\* a point, or the array a point is to be written to, and a boundary
InitPoint(types, points, surfaces) ==
    /\ pc = "input"
    /\ RestIdle
    /\ boundary1Type \in types
    /\ boundary1 \in ShapesOf(boundary1Type)
    /\ boundary2Type = UNDEFINED_SHAPE
    /\ boundary2 = Zeros6
    /\ clearance = 0
    /\ distError = 0
    /\ ret = FALSE
    /\ direction = NoDirection
    /\ intersection = Zeros6
    /\ oldPoint = Origin
    /\ curPoint = Origin
    /\ L = NPoint(Origin)
    /\ length = NInt(0)
    /\ planeID \in PlanesOf(boundary1Type, boundary1)
    /\ d = NInt(0)
    /\ intersectPoint = NPoint(Origin)
    /\ newPoint = NPoint(Origin)
    /\ first = NoReflection
    /\ point \in points
    /\ bSurface \in surfaces
    /\ volume = NoVolume

CallPointInBoundary ==
    /\ pc = "input"
    /\ ret' = bPointInBoundary(point, boundary1Type, boundary1)
    /\ pc' = "bPointInBoundary"
    /\ UNCHANGED <<restVars, rayIdle, rayVars>>

CallUniformPointVolume ==
    /\ pc = "input"
    /\ point' \in uniformPointVolume(point, boundary1Type, boundary1,
                                     bSurface, planeID)
    /\ pc' = "uniformPointVolume"
    /\ UNCHANGED <<restVars, pairVars, clearance, distError, ret, direction,
                   intersection, rayVars, bSurface, volume>>

InitContains ==
    InitPoint({RECTANGLE, RECTANGULAR_BOX, SPHERE, CYLINDER},
              {NPoint(p) : p \in Points}, {FALSE})

NextContains == CallPointInBoundary

SpecContains == InitContains /\ [][NextContains]_vars

InitSample ==
    InitPoint({RECTANGLE, RECTANGULAR_BOX, SPHERE, CYLINDER}, PriorPoints,
              BOOLEAN)

NextSample == CallUniformPointVolume

SpecSample == InitSample /\ [][NextSample]_vars

-----------------------------------------------------------------------------
(* Calls of bBoundarySurround on the shape of zero size at a point *)

\* the box with min = max = p, or the sphere of radius 0 centred at p
PointShape(type, p) ==
    IF type = SPHERE THEN Vec6(p[0], p[1], p[2], 0, 0, 0)
    ELSE Vec6(p[0], p[0], p[1], p[1], p[2], p[2])

\* boundary 1 is the shape of zero size at point, boundary 2 any shape
InitPointShape ==
    /\ pc = "input"
    /\ RestIdle
    /\ point \in {NPoint(p) : p \in Points}
    /\ bSurface = FALSE
    /\ volume = NoVolume
    /\ boundary1Type \in {RECTANGULAR_BOX, SPHERE}
    /\ boundary1 = PointShape(boundary1Type, GridPoint(point))
    /\ boundary2Type \in {RECTANGLE, RECTANGULAR_BOX, SPHERE, CYLINDER}
    /\ boundary2 \in ShapesOf(boundary2Type)
    /\ clearance = 0
    /\ distError = 0
    /\ ret = FALSE
    /\ direction = NoDirection
    /\ intersection = Zeros6
    /\ RayIdle

NextPointShape == CallSurround

SpecPointShape == InitPointShape /\ [][NextPointShape]_vars

-----------------------------------------------------------------------------
(* Geometry of the claims: what it means for two shapes to share a point,  *)
(* stated on the shapes themselves and not through the code.               *)

BothBoxes == boundary1Type = RECTANGULAR_BOX /\ boundary2Type = RECTANGULAR_BOX

\* box x lies within box y (closed sets)
BoxWithin(x, y) ==
    \A i \in 0..2 : x[2 * i] >= y[2 * i] /\ x[2 * i + 1] <= y[2 * i + 1]

\* the boxes, each shrunk by c on every side, have a point in common
ShrunkBoxesMeet(x, y, c) ==
    \A i \in 0..2 :
        /\ x[2 * i] + c <= x[2 * i + 1] - c
        /\ y[2 * i] + c <= y[2 * i + 1] - c
        /\ x[2 * i] + c <= y[2 * i + 1] - c
        /\ y[2 * i] + c <= x[2 * i + 1] - c

\* extent of the overlap of two boxes along axis i (negative: a gap)
OverlapDepth(x, y, i) ==
    fmin(x[2 * i + 1], y[2 * i + 1]) - fmax(x[2 * i], y[2 * i])

\* squared distance from point (u, v) to the rectangle [lo1,hi1] x [lo2,hi2]
GapSq(u, lo, hi) ==
    IF u < lo THEN (lo - u) * (lo - u)
    ELSE IF u > hi THEN (u - hi) * (u - hi) ELSE 0

\* the closed intervals [lo1, hi1] and [lo2, hi2] have no common point
IntervalsApart(lo1, hi1, lo2, hi2) == hi1 < lo2 \/ hi2 < lo1

CylinderBoxApart(cyl, box) ==
    LET al == Along(cyl[4])
        c1 == Across1(cyl[4])
        c2 == Across2(cyl[4])
    IN  \/ IntervalsApart(cyl[al], cyl[al] + cyl[5],
                          box[2 * al], box[2 * al + 1])
        \/ GapSq(cyl[c1], box[2 * c1], box[2 * c1 + 1])
             + GapSq(cyl[c2], box[2 * c2], box[2 * c2 + 1])
             > cyl[3] * cyl[3]

SphereBoxApart(sph, box) ==
    GapSq(sph[0], box[0], box[1]) + GapSq(sph[1], box[2], box[3])
        + GapSq(sph[2], box[4], box[5]) > sph[3] * sph[3]

\* the two shapes are of a pair the disjointness law names and share no point
SharesNoPoint(t1, x, t2, y) ==
    CASE t1 = RECTANGULAR_BOX /\ t2 = RECTANGULAR_BOX ->
           \E i \in 0..2 :
               IntervalsApart(x[2 * i], x[2 * i + 1], y[2 * i], y[2 * i + 1])
      [] t1 = SPHERE /\ t2 = RECTANGULAR_BOX -> SphereBoxApart(x, y)
      [] t1 = RECTANGULAR_BOX /\ t2 = SPHERE -> SphereBoxApart(y, x)
      [] t1 = SPHERE /\ t2 = SPHERE ->
           (x[0] - y[0]) * (x[0] - y[0]) + (x[1] - y[1]) * (x[1] - y[1])
               + (x[2] - y[2]) * (x[2] - y[2])
             > (x[3] + y[3]) * (x[3] + y[3])
      [] t1 = CYLINDER /\ t2 = CYLINDER ->
           /\ x[4] = y[4]
           /\ LET al == Along(x[4])
                  c1 == Across1(x[4])
                  c2 == Across2(x[4])
              IN  \/ IntervalsApart(x[al], x[al] + x[5], y[al], y[al] + y[5])
                  \/ (x[c1] - y[c1]) * (x[c1] - y[c1])
                       + (x[c2] - y[c2]) * (x[c2] - y[c2])
                       > (x[3] + y[3]) * (x[3] + y[3])
      [] t1 = CYLINDER /\ t2 = RECTANGULAR_BOX -> CylinderBoxApart(x, y)
      [] t1 = RECTANGULAR_BOX /\ t2 = CYLINDER -> CylinderBoxApart(y, x)
      [] OTHER -> FALSE

\* squared distance between the axes of two cylinders of one orientation
AxisDistSq(x, y) ==
    (x[Across1(x[4])] - y[Across1(x[4])]) * (x[Across1(x[4])] - y[Across1(x[4])])
      + (x[Across2(x[4])] - y[Across2(x[4])])
          * (x[Across2(x[4])] - y[Across2(x[4])])

\* the disks of two cylinders overlap, neither lying within the other
DisksPartlyOverlap(x, y) ==
    /\ AxisDistSq(x, y) < (x[3] + y[3]) * (x[3] + y[3])
    /\ AxisDistSq(x, y) > (x[3] - y[3]) * (x[3] - y[3])

\* the disk of a cylinder and the cross-section of a box overlap, neither
\* lying within the other
DiskPartlyOverlapsBox(cyl, box) ==
    LET c1 == Across1(cyl[4])
        c2 == Across2(cyl[4])
        cornerIn(i, j) ==
            (box[i] - cyl[c1]) * (box[i] - cyl[c1])
              + (box[j] - cyl[c2]) * (box[j] - cyl[c2]) <= cyl[3] * cyl[3]
    IN  /\ GapSq(cyl[c1], box[2 * c1], box[2 * c1 + 1])
             + GapSq(cyl[c2], box[2 * c2], box[2 * c2 + 1])
             < cyl[3] * cyl[3]
        /\ \E i \in {2 * c1, 2 * c1 + 1}, j \in {2 * c2, 2 * c2 + 1} :
               ~cornerIn(i, j)
        /\ \/ box[2 * c1] > cyl[c1] - cyl[3]
           \/ box[2 * c1 + 1] < cyl[c1] + cyl[3]
           \/ box[2 * c2] > cyl[c2] - cyl[3]
           \/ box[2 * c2 + 1] < cyl[c2] + cyl[3]

\* the combinations whose intersection intersectBoundary cannot compute
NotComputable(t1, x, t2, y) ==
    \/ {t1, t2} = {SPHERE, CYLINDER}
    \/ t1 = CYLINDER /\ t2 = CYLINDER /\ x[4] # y[4]
    \/ t1 = CYLINDER /\ t2 = CYLINDER /\ x[4] = y[4] /\ DisksPartlyOverlap(x, y)
    \/ t1 = CYLINDER /\ t2 = RECTANGULAR_BOX /\ DiskPartlyOverlapsBox(x, y)
    \/ t1 = RECTANGULAR_BOX /\ t2 = CYLINDER /\ DiskPartlyOverlapsBox(y, x)

-----------------------------------------------------------------------------
(* Claims *)

\* C1: for two boxes and a clearance c >= 0, bBoundaryIntersect returns true
\* if and only if the boxes shrunk by c share a point and neither box
\* surrounds the other; a box nested inside another is not reported.
C1_IntersectIffMeetAndNotNested ==
    (pc = "bBoundaryIntersect" /\ BothBoxes) =>
        (ret = (/\ ShrunkBoxesMeet(boundary1, boundary2, clearance)
                /\ ~BoxWithin(boundary1, boundary2)
                /\ ~BoxWithin(boundary2, boundary1)))

\* C2: for every pair of shapes that share no point, bBoundaryIntersect with
\* clearance 0 is false and intersectBoundary returns an empty shape, one
\* whose boundaryVolume is zero.
C2_DisjointGivesEmpty ==
    SharesNoPoint(boundary1Type, boundary1, boundary2Type, boundary2) =>
        /\ (pc = "bBoundaryIntersect" /\ clearance = 0) => ret = FALSE
        /\ pc = "intersectBoundary" =>
               boundaryVolume(ret, intersection).coef = 0

\* C3: intersectBoundary returns UNDEFINED_SHAPE, and never a valid shape
\* type, for every combination whose intersection it cannot compute.
C3_NotComputableIsUndefined ==
    (/\ pc = "intersectBoundary"
     /\ NotComputable(boundary1Type, boundary1, boundary2Type, boundary2))
        => ret = UNDEFINED_SHAPE

\* the axis of the face that a direction names
DirectionAxis(dir) ==
    CASE dir \in {LEFT, RIGHT} -> 0
      [] dir \in {DOWN, UP} -> 1
      [] dir \in {DirIN, DirOUT} -> 2

AdjacentAndIntersecting ==
    /\ pc = "bBoundaryAdjacent"
    /\ ret = TRUE
    /\ bBoundaryIntersect(boundary1Type, boundary1,
                          boundary2Type, boundary2, 0)

-----------------------------------------------------------------------------
(* Geometry of the claims on segments: where the segment oldPoint ->       *)
(* curPoint crosses the plane of a face, in integers.  The crossing of     *)
(* face k of a box lies at the fraction CrossNum / CrossDen of the         *)
(* segment.                                                                *)

CrossDen(p, q, k) == Abs(q[k \div 2] - p[k \div 2])

CrossNum(p, q, b, k) == Abs(b[k] - p[k \div 2])

\* the segment p -> q crosses the plane of face k of box b at a distance
\* 0 < d <= length, at a point of the face's rectangle
Crosses(p, q, b, k) ==
    LET i == k \div 2
        den == CrossDen(p, q, k)
        num == CrossNum(p, q, b, k)
    IN  /\ q[i] # p[i]
        /\ (b[k] - p[i]) * (q[i] - p[i]) > 0
        /\ num <= den
        /\ \A j \in (0..2) \ {i} :
              /\ b[2 * j] * den <= p[j] * den + num * (q[j] - p[j])
              /\ p[j] * den + num * (q[j] - p[j]) <= b[2 * j + 1] * den

\* no face is crossed nearer than face k
Nearest(p, q, b, k) ==
    /\ Crosses(p, q, b, k)
    /\ \A l \in 0..5 :
          Crosses(p, q, b, l) =>
              CrossNum(p, q, b, k) * CrossDen(p, q, l)
                  <= CrossNum(p, q, b, l) * CrossDen(p, q, k)

\* the distance of the crossing, in units of the length
CrossDist(p, q, b, k) == Num(CrossNum(p, q, b, k), 0, CrossDen(p, q, k), 0)

CrossPoint(p, q, b, k) ==
    [j \in 0..2 |->
        Num(p[j] * CrossDen(p, q, k) + CrossNum(p, q, b, k) * (q[j] - p[j]),
            0, CrossDen(p, q, k), 0)]

\* C5: for a rectangular box, bLineHitBoundary reports a hit if and only if
\* the segment crosses the plane of some face at a distance 0 < d <= length
\* at a point of that face's rectangle; the d it returns is the least such
\* distance over the six faces, and planeID and intersectPoint are those of
\* a face at that distance.
C5_BoxHitIsNearestFace ==
    (pc = "bLineHitBoundary" /\ boundary1Type = RECTANGULAR_BOX) =>
        /\ ret = (\E k \in 0..5 : Crosses(oldPoint, curPoint, boundary1, k))
        /\ ret => /\ planeID \in 0..5
                  /\ Nearest(oldPoint, curPoint, boundary1, planeID)
                  /\ d = CrossDist(oldPoint, curPoint, boundary1, planeID)
                  /\ intersectPoint
                         = CrossPoint(oldPoint, curPoint, boundary1, planeID)

\* a hit on a box whose segment crosses a second face farther away, and a
\* face of a lower number than the one returned
C5_Witness ==
    /\ pc = "bLineHitBoundary"
    /\ boundary1Type = RECTANGULAR_BOX
    /\ ret = TRUE
    /\ \E l \in 0..5 :
          /\ Crosses(oldPoint, curPoint, boundary1, l)
          /\ ~Nearest(oldPoint, curPoint, boundary1, l)
          /\ l < planeID

\* the axis a rectangle is flat along
RectangleAxis(b) == IF b[0] = b[1] THEN 0 ELSE IF b[2] = b[3] THEN 1 ELSE 2

\* point c mirrored across the plane at face along axis i
MirrorAcross(c, i, face) == NPoint([c EXCEPT ![i] = 2 * face - c[i]])

\* C6: when the segment hits a face of a rectangular box or a rectangle,
\* reflectPoint returns true and a new point whose coordinate along the
\* normal of the face is 2 * face - current and whose other two coordinates
\* are those of the current point.
C6_FlatFaceMirrors ==
    pc = "reflectPoint" =>
        /\ (/\ boundary1Type = RECTANGULAR_BOX
            /\ \E k \in 0..5 : Crosses(oldPoint, curPoint, boundary1, k))
           => /\ ret = TRUE
              /\ Nearest(oldPoint, curPoint, boundary1, planeID)
              /\ newPoint = MirrorAcross(curPoint, planeID \div 2,
                                         boundary1[planeID])
        /\ (/\ boundary1Type = RECTANGLE
            /\ Crosses(oldPoint, curPoint, boundary1,
                       2 * RectangleAxis(boundary1)))
           => /\ ret = TRUE
              /\ newPoint = MirrorAcross(curPoint, RectangleAxis(boundary1),
                                         boundary1[2 * RectangleAxis(boundary1)])

\* C7: for a cylinder of each of the three orientations, a reflection off
\* the lower end cap sets the axial coordinate to 2 * anchor - current and
\* one off the upper end cap to 2 * (anchor + length) - current; the two
\* coordinates of the cross-section are unchanged.
C7_CapMirrors ==
    (pc = "reflectPoint" /\ boundary1Type = CYLINDER /\ ret = TRUE) =>
        LET along == Along(boundary1[4])
        IN  /\ planeID = 2 * along =>
                 newPoint = MirrorAcross(curPoint, along, boundary1[along])
            /\ planeID = 2 * along + 1 =>
                 newPoint = MirrorAcross(curPoint, along,
                                         boundary1[along] + boundary1[5])

\* the second reflection was off the face of the first, a face of a box or
\* an end cap of a cylinder
SameFlatFaceTwice ==
    /\ pc = "reflectBack"
    /\ ret = TRUE
    /\ planeID = first.planeID
    /\ \/ boundary1Type = RECTANGULAR_BOX
       \/ /\ boundary1Type = CYLINDER
          /\ planeID \div 2 = Along(boundary1[4])

\* C8: reflecting a point across a face and then reflecting the result
\* across the same face (a face of a box or an end cap of a cylinder of any
\* orientation) returns the original point.
C8_ReflectTwiceIsIdentity ==
    SameFlatFaceTwice => newPoint = NPoint(first.curPoint)

\* a point that the first reflection moved comes back off an end cap
C8_Witness ==
    /\ SameFlatFaceTwice
    /\ boundary1Type = CYLINDER
    /\ curPoint # first.curPoint
    /\ newPoint = NPoint(first.curPoint)

-----------------------------------------------------------------------------
(* Geometry of the claims on points: the closed shapes, and their          *)
(* surfaces.                                                               *)

\* coordinate i of p lies on one of the two bounds of box b along axis i
OnBound(p, b, i) == NEq(p[i], NInt(b[2 * i])) \/ NEq(p[i], NInt(b[2 * i + 1]))

\* p lies in the closed box (or rectangle) b
InBox(p, b) ==
    \A i \in 0..2 : NLeq(NInt(b[2 * i]), p[i]) /\ NLeq(p[i], NInt(b[2 * i + 1]))

\* p lies on one of the four edges of rectangle b
OnPerimeter(p, b) ==
    InBox(p, b) /\ \E i \in (0..2) \ {RectangleAxis(b)} : OnBound(p, b, i)

\* p lies on one of the six faces of box b
OnBoxFace(p, b) == InBox(p, b) /\ \E i \in 0..2 : OnBound(p, b, i)

\* p lies at the distance of the radius from the centre of sphere b
OnSphere(p, b) == NSqrtEq(CenterSq(p, b), NInt(b[3]))

\* C9: for each of the four shapes (a rectangle in each of its three planes,
\* a box, a sphere, a cylinder) and every outcome of the random draws,
\* uniformPointVolume writes a point for which bPointInBoundary is true;
\* with bSurface the point lies on the perimeter of the rectangle, on a face
\* of the box or on the surface of the sphere.
C9_SampleIsContained ==
    pc = "uniformPointVolume" =>
        /\ bPointInBoundary(point, boundary1Type, boundary1)
        /\ bSurface =>
             CASE boundary1Type = RECTANGLE -> OnPerimeter(point, boundary1)
               [] boundary1Type = RECTANGULAR_BOX -> OnBoxFace(point, boundary1)
               [] boundary1Type = SPHERE -> OnSphere(point, boundary1)
               [] OTHER -> TRUE

\* the point with integer coordinates p lies in the closed shape b
Contains(p, type, b) ==
    CASE type \in {RECTANGLE, RECTANGULAR_BOX} ->
           \A i \in 0..2 : b[2 * i] <= p[i] /\ p[i] <= b[2 * i + 1]
      [] type = SPHERE ->
           b[3] >= 0 /\ pointDistanceSq(p, b) <= b[3] * b[3]
      [] type = CYLINDER ->
           /\ b[Along(b[4])] <= p[Along(b[4])]
           /\ p[Along(b[4])] <= b[Along(b[4])] + b[5]
           /\ b[3] >= 0
           /\ AxisDistSq(b, p) <= b[3] * b[3]

\* C10: bPointInBoundary is closed-set membership: true exactly when every
\* coordinate lies in the inclusive [min, max] interval (rectangle, box), or
\* the distance to the centre is <= radius (sphere), or, for a cylinder of
\* any of the three orientations, the axial coordinate lies in
\* [anchor, anchor + length] and the radial distance from the axis is
\* <= radius; points exactly on a face, cap or mantle are contained.
C10_ContainsIsClosedMembership ==
    pc = "bPointInBoundary" =>
        ret = Contains(GridPoint(point), boundary1Type, boundary1)

\* a point on the rim of the upper cap of a cylinder is contained
C10_Witness ==
    /\ pc = "bPointInBoundary"
    /\ boundary1Type = CYLINDER
    /\ boundary1[5] > 0
    /\ GridPoint(point)[Along(boundary1[4])]
           = boundary1[Along(boundary1[4])] + boundary1[5]
    /\ AxisDistSq(boundary1, GridPoint(point)) = boundary1[3] * boundary1[3]
    /\ ret = TRUE

\* C11: for every shape and every point p with bPointInBoundary(p, shape)
\* true, the shape of zero size at p (a box with min = max = p, or a sphere
\* of radius 0 centred at p) is reported as surrounded by the shape by
\* bBoundarySurround with clearance 0.
C11_ContainedPointIsSurrounded ==
    (/\ pc = "bBoundarySurround"
     /\ clearance = 0
     /\ boundary1 = PointShape(boundary1Type, GridPoint(point))
     /\ bPointInBoundary(point, boundary2Type, boundary2))
        => ret = TRUE


-----------------------------------------------------------------------------
(* initializeRegionChemRxn (chem_rxn.c) *)

MaxRxns == 3
MaxMolTypes == 2
MaxExceptions == 2

REGION_NORMAL == "REGION_NORMAL"
REGION_SURFACE_3D == "REGION_SURFACE_3D"
REGION_SURFACE_2D == "REGION_SURFACE_2D"

SURFACE_INNER == "SURFACE_INNER"
SURFACE_OUTER == "SURFACE_OUTER"
SURFACE_MEMBRANE == "SURFACE_MEMBRANE"

RXN_NORMAL == "RXN_NORMAL"
RXN_ABSORBING == "RXN_ABSORBING"
RXN_RECEPTOR == "RXN_RECEPTOR"
RXN_MEMBRANE == "RXN_MEMBRANE"

NoError == "none"

SegmentationFault == "segmentation fault"

\* Number of elements of a C array kept as a function on 0..n-1
Count(array) == Cardinality(DOMAIN array)

\* The value bRxnInRegion[j][i] gets from the "everywhere" flag of the
\* reaction and the kind of the region
EverywhereFits(rxn, spec) ==
    /\ rxn.bEverywhere
    /\ \/ rxn.bSurface /\ spec.type # REGION_NORMAL
       \/ ~rxn.bSurface /\ spec.type = REGION_NORMAL

\* The loop over the exception labels of a reaction: every non-empty label
\* that equals the label of the region inverts the flag
RECURSIVE ExceptionLoop(_, _, _, _)
ExceptionLoop(flag, rxn, label, k) ==
    IF k < rxn.numRegionExceptions
    THEN ExceptionLoop(IF /\ rxn.regionExceptionLabel[k + 1] # ""
                          /\ rxn.regionExceptionLabel[k + 1] = label
                       THEN ~flag ELSE flag,
                       rxn, label, k + 1)
    ELSE flag

bRxnInRegion(rxn, spec) ==
    IF spec.label # ""
    THEN ExceptionLoop(EverywhereFits(rxn, spec), rxn, spec.label, 0)
    ELSE EverywhereFits(rxn, spec)

\* Column i of rxnInRegionID: the reactions of region i in ascending order,
\* as a sequence whose element j + 1 is rxnInRegionID[j][i]
RECURSIVE RxnLoop(_, _, _, _)
RxnLoop(ids, rxns, spec, j) ==
    IF j < Count(rxns)
    THEN RxnLoop(IF bRxnInRegion(rxns[j], spec) THEN Append(ids, j) ELSE ids,
                 rxns, spec, j + 1)
    ELSE ids

RECURSIVE num_reactants(_, _)
num_reactants(rxn, k) ==
    IF k < Count(rxn.reactants)
    THEN rxn.reactants[k] + num_reactants(rxn, k + 1)
    ELSE 0

ValidSurfRxnType(type) ==
    type \in {RXN_NORMAL, RXN_ABSORBING, RXN_RECEPTOR, RXN_MEMBRANE}

\* The error one reaction of a region ends the program with, if any
RxnError(rxn, spec) ==
    IF rxn.surfRxnType = RXN_MEMBRANE /\ spec.surfaceType # SURFACE_MEMBRANE
    THEN "membrane reaction in a region that is not a membrane"
    ELSE IF rxn.surfRxnType # RXN_MEMBRANE /\ spec.surfaceType = SURFACE_MEMBRANE
    THEN "non-membrane reaction in a membrane region"
    ELSE CASE num_reactants(rxn, 0) \in {0, 2} ->
                  IF rxn.bSurface /\ rxn.surfRxnType # RXN_NORMAL
                  THEN "surface reaction of this order must be normal"
                  ELSE NoError
           [] num_reactants(rxn, 0) = 1 ->
                  IF ValidSurfRxnType(rxn.surfRxnType)
                  THEN NoError
                  ELSE "invalid 1st order reaction type"
           [] OTHER -> "more than 2 reactants"

\* The first error the loop over the reactions of a region meets
RECURSIVE RxnErrors(_, _, _, _)
RxnErrors(rxns, spec, ids, j) ==
    IF j < Len(ids)
    THEN IF RxnError(rxns[ids[j + 1]], spec) # NoError
         THEN RxnError(rxns[ids[j + 1]], spec)
         ELSE RxnErrors(rxns, spec, ids, j + 1)
    ELSE NoError

rxnOrder(rxns, ids) ==
    [j \in 1..Len(ids) |-> num_reactants(rxns[ids[j]], 0)]

\* firstRxnID[j]: the first order reactions of molecule j in a region, as
\* the loop over k collects them.  The loop reads chem_rxn[k], k being the
\* position of the reaction in the list of the region.
RECURSIVE firstRxnID(_, _, _, _)
firstRxnID(rxns, order, j, k) ==
    IF k < Len(order)
    THEN IF order[k + 1] = 1 /\ rxns[k].reactants[j] > 0
         THEN <<k>> \o firstRxnID(rxns, order, j, k + 1)
         ELSE firstRxnID(rxns, order, j, k + 1)
    ELSE <<>>

bHasExclusiveRxn(rxns, firstID) ==
    \E n \in 1..Len(firstID) : rxns[firstID[n]].surfRxnType # RXN_NORMAL

\* The first molecule, if any, whose first order reactions end the program
RECURSIVE ExclusiveErrors(_, _, _)
ExclusiveErrors(rxns, order, j) ==
    IF j < MaxMolTypes
    THEN IF /\ bHasExclusiveRxn(rxns, firstRxnID(rxns, order, j, 0))
            /\ Len(firstRxnID(rxns, order, j, 0)) > 1
         THEN "exclusive 1st order reaction is not the only one"
         ELSE ExclusiveErrors(rxns, order, j + 1)
    ELSE NoError

\* A region rate: the rate constant k of the reaction and the second indices
\* coef of the diffusion coefficients DIFF_COEF[i][coef] that scale it (none
\* if no coefficient is read).  The factors of the size of a subvolume in the
\* rates of the reactions of order 0 and 2 are left out.
Rate(k, coef) == [k |-> k, coef |-> coef]

\* rxnRate[j] of the reaction at position j of the list of a region.  The
\* absorbing rate reads DIFF_COEF[i][j], j being that position.
rxnRate(rxn, j) ==
    IF num_reactants(rxn, 0) = 1 /\ rxn.surfRxnType = RXN_ABSORBING
    THEN Rate(rxn.k, {j})
    ELSE Rate(rxn.k, {})

rxnRates(rxns, ids) == [j \in 1..Len(ids) |-> rxnRate(rxns[ids[j]], j - 1)]

\* rxnRate == INFINITY, the diffusion coefficients being positive numbers
IsInfinite(rate) == rate.k = INFINITY

\* uniSumRate[j]: the rates that the scan over the positions adds up
uniSumRate(rates, firstID) == [n \in 1..Len(firstID) |-> rates[firstID[n] + 1]]

numInfRxn(rates, firstID) ==
    Cardinality({n \in 1..Len(firstID) : IsInfinite(rates[firstID[n] + 1])})

\* An entry of uniRelativeRate or uniCumProb: the number
\*    unit + (sum of share) / uniSumRate * (1 - exp(-dt * uniSumRate))
\*         + (sum of whole),
\* or what malloc left there if the entry was never written
Prob(unit, share, whole) == [unit |-> unit, share |-> share, whole |-> whole, written |-> TRUE]

Unwritten == [unit |-> 0, share |-> <<>>, whole |-> <<>>, written |-> FALSE]

\* 1/numInfRxn: the quotient of two integers
InfiniteShare(numInf) == 1 \div numInf

\* The loop over the first order reactions of one reactant that fills
\* uniRelativeRate[j] and uniCumProb[j], both of them sequences whose entry
\* k + 1 is the entry k of the array.  The reaction type is read from
\* chem_rxn[firstRxnID[j][k]].
RECURSIVE CumProbLoop(_, _, _, _, _, _)
CumProbLoop(rxns, rates, firstID, k, rel, cum) ==
    IF k < Len(firstID)
    THEN IF rxns[firstID[k + 1]].surfRxnType = RXN_ABSORBING
         THEN CumProbLoop(rxns, rates, firstID, k + 1,
                  [rel EXCEPT ![1] = Prob(0, <<>>, <<rates[firstID[k + 1] + 1]>>)],
                  [cum EXCEPT ![1] = Prob(0, <<>>, <<rates[firstID[k + 1] + 1]>>)])
         ELSE IF IsInfinite(rates[firstID[k + 1] + 1])
         THEN CumProbLoop(rxns, rates, firstID, k + 1,
                  [rel EXCEPT ![k + 1] =
                      Prob(InfiniteShare(numInfRxn(rates, firstID)), <<>>, <<>>)],
                  [cum EXCEPT ![k + 1] =
                      [(IF k > 0 THEN cum[k] ELSE cum[1]) EXCEPT
                          !.unit = @ + InfiniteShare(numInfRxn(rates, firstID))]])
         ELSE CumProbLoop(rxns, rates, firstID, k + 1,
                  [rel EXCEPT ![k + 1] =
                      Prob(0, <<rates[firstID[k + 1] + 1]>>, <<>>)],
                  [cum EXCEPT ![k + 1] =
                      [(IF k > 0 THEN cum[k] ELSE cum[1]) EXCEPT
                          !.share = Append(@, rates[firstID[k + 1] + 1])]])
    ELSE [uniRelativeRate |-> rel, uniCumProb |-> cum]

\* The arrays before the loop: uniCumProb[j][0] = 0, the rest as allocated
CumProbStart(firstID) ==
    [k \in 1..Len(firstID) |-> IF k = 1 THEN Prob(0, <<>>, <<>>) ELSE Unwritten]

Allotted(firstID) == [k \in 1..Len(firstID) |-> Unwritten]

uniCumProb(rxns, rates, firstID) ==
    CumProbLoop(rxns, rates, firstID, 0, Allotted(firstID), CumProbStart(firstID))

\* One turn of the loop that sets up the reactions of region i
RegionError(rxns, spec, ids) ==
    IF RxnErrors(rxns, spec, ids, 0) # NoError
    THEN RxnErrors(rxns, spec, ids, 0)
    ELSE ExclusiveErrors(rxns, rxnOrder(rxns, ids), 0)

RegionRxn(rxns, region, ids) ==
    [region EXCEPT
        !.numChemRxn = Len(ids),
        !.rxnOrder = rxnOrder(rxns, ids),
        !.numFirstCurReactant =
            [j \in 0..(MaxMolTypes - 1) |->
                Len(firstRxnID(rxns, rxnOrder(rxns, ids), j, 0))],
        !.firstRxnID =
            [j \in 0..(MaxMolTypes - 1) |->
                firstRxnID(rxns, rxnOrder(rxns, ids), j, 0)],
        !.rxnRate = rxnRates(rxns, ids),
        !.uniSumRate =
            [j \in 0..(MaxMolTypes - 1) |->
                uniSumRate(rxnRates(rxns, ids),
                           firstRxnID(rxns, rxnOrder(rxns, ids), j, 0))],
        !.uniRelativeRate =
            [j \in 0..(MaxMolTypes - 1) |->
                uniCumProb(rxns, rxnRates(rxns, ids),
                           firstRxnID(rxns, rxnOrder(rxns, ids), j, 0)).uniRelativeRate],
        !.uniCumProb =
            [j \in 0..(MaxMolTypes - 1) |->
                uniCumProb(rxns, rxnRates(rxns, ids),
                           firstRxnID(rxns, rxnOrder(rxns, ids), j, 0)).uniCumProb]]

\* The region in which the program exits, or NUM_REGIONS if it does not
RECURSIVE FailingRegion(_, _, _, _)
FailingRegion(rxns, regions, ids, i) ==
    IF i < Count(regions)
    THEN IF RegionError(rxns, regions[i].spec, ids[i]) # NoError
         THEN i
         ELSE FailingRegion(rxns, regions, ids, i + 1)
    ELSE i

initializeRegionChemRxn(rxns, regions, ids, failing) ==
    [fatal |-> IF failing < Count(regions)
               THEN RegionError(rxns, regions[failing].spec, ids[failing])
               ELSE NoError,
     rxnInRegionID |-> ids,
     regionArray |->
        [i \in DOMAIN regions |->
            IF i < failing
            THEN RegionRxn(rxns, regions[i], ids[i])
            ELSE [regions[i] EXCEPT !.numChemRxn = Len(ids[i])]]]

\* Some absorbing rate of a region that the function gets to is computed
\* from DIFF_COEF[i][j] with j not below NUM_MOL_TYPES, a read beyond the
\* row of the region
ReadsBeyond(rxns, regions, ids, failing) ==
    \E i \in DOMAIN regions :
        /\ i <= failing
        /\ \E j \in 1..Len(ids[i]) :
              /\ \E c \in rxnRate(rxns[ids[i][j]], j - 1).coef : c >= MaxMolTypes
              /\ \A n \in 1..j : RxnError(rxns[ids[i][n]], regions[i].spec) = NoError

\* What a call may end with: the read beyond DIFF_COEF[i] either gives
\* some number or ends the program
ChemOutcomes(rxns, regions, ids, failing) ==
    {initializeRegionChemRxn(rxns, regions, ids, failing)} \cup
    IF ReadsBeyond(rxns, regions, ids, failing)
    THEN {[initializeRegionChemRxn(rxns, regions, ids, failing)
              EXCEPT !.fatal = SegmentationFault]}
    ELSE {}

Molecules == 0..(MaxMolTypes - 1)

NoRxn == [numChemRxn |-> 0, rxnOrder |-> <<>>,
          numFirstCurReactant |-> [j \in Molecules |-> 0],
          firstRxnID |-> [j \in Molecules |-> <<>>],
          rxnRate |-> <<>>,
          uniSumRate |-> [j \in Molecules |-> <<>>],
          uniRelativeRate |-> [j \in Molecules |-> <<>>],
          uniCumProb |-> [j \in Molecules |-> <<>>]]

Region(spec) == [spec |-> spec] @@ NoRxn

Array(seq) == [i \in 0..(Len(seq) - 1) |-> seq[i + 1]]

Labels == {"", "a"}

ExceptionLists == UNION {[1..n -> Labels] : n \in 0..MaxExceptions}

Reaction(everywhere, surface, type, reactants, labels) ==
    [bEverywhere |-> everywhere, bSurface |-> surface, surfRxnType |-> type,
     reactants |-> reactants, numRegionExceptions |-> Len(labels),
     regionExceptionLabel |-> labels, k |-> NInt(1)]

FirstOrder(j) == [k \in Molecules |-> IF k = j THEN 1 ELSE 0]

SecondOrder == [k \in Molecules |-> 1]

geoVars == <<boundary1Type, boundary1, boundary2Type, boundary2, clearance,
             distError, ret, direction, intersection, rayVars, sampleVars>>

GeoIdle ==
    /\ boundary1Type = RECTANGULAR_BOX
    /\ boundary1 = Zeros6
    /\ boundary2Type = RECTANGULAR_BOX
    /\ boundary2 = Zeros6
    /\ clearance = 0
    /\ distError = 0
    /\ ret = FALSE
    /\ direction = NoDirection
    /\ intersection = Zeros6
    /\ RayIdle
    /\ SampleIdle

InitChem(rxnSets, specSets) ==
    /\ pc = "input"
    /\ GeoIdle
    /\ ConfigIdle
    /\ ObsIdle
    /\ SchedIdle
    /\ chem_rxn \in {Array(seq) : seq \in rxnSets}
    /\ regionArray \in {Array(seq) : seq \in specSets}
    /\ rxnInRegionID = <<>>
    /\ fatal = NoError

CallInitializeRegionChemRxn ==
    /\ pc = "input"
    /\ \E ids \in {[i \in DOMAIN regionArray |->
                       RxnLoop(<<>>, chem_rxn, regionArray[i].spec, 0)]} :
         \E r \in ChemOutcomes(chem_rxn, regionArray, ids,
                                FailingRegion(chem_rxn, regionArray, ids, 0)) :
            /\ regionArray' = r.regionArray
            /\ rxnInRegionID' = r.rxnInRegionID
            /\ fatal' = r.fatal
    /\ pc' = "initializeRegionChemRxn"
    /\ UNCHANGED <<geoVars, cfgVars, obsVars, schedVars, chem_rxn>>

\* Admission: two reactions of one kind, two regions of every kind
AdmitRxns ==
    {Reaction(e, s, RXN_NORMAL, FirstOrder(0), l) :
        e \in BOOLEAN, s \in BOOLEAN, l \in ExceptionLists}

AdmitSpecs ==
    [type : {REGION_NORMAL, REGION_SURFACE_3D, REGION_SURFACE_2D},
     surfaceType : {SURFACE_INNER}, label : {"", "a", "b"}]

InitAdmit ==
    InitChem([1..2 -> AdmitRxns], {<<Region(s)>> : s \in AdmitSpecs})

NextAdmit == CallInitializeRegionChemRxn

SpecAdmit == InitAdmit /\ [][NextAdmit]_vars

\* Exclusivity: surface reactions of every kind in one surface region
ExclusiveRxns ==
    {Reaction(e, TRUE, t, r, l) :
        e \in BOOLEAN, t \in {RXN_NORMAL, RXN_ABSORBING, RXN_RECEPTOR},
        r \in {FirstOrder(j) : j \in Molecules} \cup {SecondOrder},
        l \in {<<>>, <<"a">>}}

ExclusiveSpecs ==
    [type : {REGION_SURFACE_3D}, surfaceType : {SURFACE_INNER},
     label : {"", "a"}]

InitExclusive ==
    InitChem([1..MaxRxns -> ExclusiveRxns],
             {<<Region(s)>> : s \in ExclusiveSpecs})

NextExclusive == CallInitializeRegionChemRxn

SpecExclusive == InitExclusive /\ [][NextExclusive]_vars

-----------------------------------------------------------------------------
(* Claims about the reactions of a region *)

\* Reaction j is among the reactions of region i
Admitted(j, i) ==
    \E n \in 1..Len(rxnInRegionID[i]) : rxnInRegionID[i][n] = j

Listed(rxn, label) ==
    /\ label # ""
    /\ \E k \in 1..rxn.numRegionExceptions : rxn.regionExceptionLabel[k] = label

SurfaceMatches(rxn, spec) == rxn.bSurface <=> spec.type # REGION_NORMAL

\* C12: initializeRegionChemRxn admits reaction j in region i exactly when
\* the surface flag of the reaction matches the kind of the region and
\* either the reaction is everywhere by default and the label of the region
\* is not among its exception labels, or it is not everywhere by default
\* and the label is among them; numChemRxn is the number of admitted
\* reactions.
C12_AdmittedIffMatchingAndSelected ==
    pc = "initializeRegionChemRxn" =>
        \A i \in DOMAIN regionArray :
            /\ \A j \in DOMAIN chem_rxn :
                 Admitted(j, i) <=>
                    /\ SurfaceMatches(chem_rxn[j], regionArray[i].spec)
                    /\ chem_rxn[j].bEverywhere <=>
                          ~Listed(chem_rxn[j], regionArray[i].spec.label)
            /\ regionArray[i].numChemRxn =
                 Cardinality({j \in DOMAIN chem_rxn : Admitted(j, i)})


\* Reaction j is a first order reaction with molecule m as its reactant
FirstOrderOf(j, m) ==
    /\ num_reactants(chem_rxn[j], 0) = 1
    /\ chem_rxn[j].reactants[m] > 0

\* Region i has an exclusive first order reaction of molecule m together
\* with another first order reaction of that molecule
ExclusiveClash(i, m) ==
    \E j1, j2 \in DOMAIN chem_rxn :
        /\ j1 # j2
        /\ Admitted(j1, i) /\ Admitted(j2, i)
        /\ FirstOrderOf(j1, m) /\ FirstOrderOf(j2, m)
        /\ chem_rxn[j1].surfRxnType # RXN_NORMAL

\* C13: when the reactions admitted in a region include a first order
\* reaction whose surfRxnType is not normal and another first order reaction
\* of the same reactant, initializeRegionChemRxn ends in a fatal error, also
\* when the region admits only some of the reactions (any fatal error of the
\* function counts).
C13_ExclusiveClashIsFatal ==
    pc = "initializeRegionChemRxn" =>
        \A i \in DOMAIN regionArray : \A m \in Molecules :
            ExclusiveClash(i, m) => fatal # NoError


-----------------------------------------------------------------------------
(* loadConfig (file_io.c) *)

MaxCount == 2
MaxRegions == 2

\* Items of the parsed file.  A JSON object is a function on the names it
\* holds, an array a sequence; numbers are integers, so that valueint and
\* valuedouble agree.
cJSON_False == "cJSON_False"
cJSON_True == "cJSON_True"
cJSON_Number == "cJSON_Number"
cJSON_String == "cJSON_String"

Number(n) == [type |-> cJSON_Number, valueint |-> n, valuedouble |-> n]
Boolean(b) == [type |-> IF b THEN cJSON_True ELSE cJSON_False, valueint |-> IF b THEN 1 ELSE 0]
String(str) == [type |-> cJSON_String, valuestring |-> str]

Absent == [type |-> "absent"]

\* The object that holds the items of a function which are not absent
Object(items) == [name \in {n \in DOMAIN items : items[n] # Absent} |-> items[name]]

\* An item of the asked name exists and has the asked type; a boolean item
\* is asked for as cJSON_True and is valid when it is false, too
cJSON_bItemValid(object, string, type) ==
    /\ string \in DOMAIN object
    /\ \/ object[string].type = type
       \/ type = cJSON_True /\ object[string].type = cJSON_False

\* "if (!valid || value < least) {warning; field = default} else field = value"
IntField(object, string, least, default) ==
    IF \/ ~cJSON_bItemValid(object, string, cJSON_Number)
       \/ object[string].valueint < least
    THEN [warn |-> 1, value |-> default]
    ELSE [warn |-> 0, value |-> object[string].valueint]

WarningOverride(json) ==
    IF ~cJSON_bItemValid(json, "Warning Override", cJSON_True)
    THEN [warn |-> 1, value |-> FALSE]
    ELSE [warn |-> 0, value |-> json["Warning Override"].valueint # 0]

SEED(simControl, seed) ==
    IF seed > 0
    THEN [warn |-> 0, value |-> seed]
    ELSE IF cJSON_bItemValid(simControl, "Random Number Seed", cJSON_Number)
         THEN [warn |-> 0, value |-> simControl["Random Number Seed"].valueint]
         ELSE [warn |-> 1, value |-> 0]

NUM_REPEAT(simControl) == IntField(simControl, "Number of Repeats", 0, 1)

TIME_FINAL(simControl) == IntField(simControl, "Final Simulation Time", 0, 0)

DT_MICRO(simControl) == IntField(simControl, "Global Microscopic Time Step", 0, 0)

MAX_UPDATES(simControl) == IntField(simControl, "Max Number of Progress Updates", 0, 10)


\* The values a read through the null pointer that cJSON_GetObjectItem
\* returns for a missing item may give, when it does not end the program
NullRead == (-1)..MaxCount

\* The values SUBVOL_BASE_SIZE may get, and whether the program may end
\* instead.  Both branches store the value of the item, the first after its
\* warning.
SUBVOL_BASE_SIZE(environment) ==
    IF \/ ~cJSON_bItemValid(environment, "Subvolume Base Size", cJSON_Number)
       \/ environment["Subvolume Base Size"].valuedouble <= 0
    THEN [warn |-> 1,
          values |-> IF "Subvolume Base Size" \in DOMAIN environment
                     THEN {environment["Subvolume Base Size"].valuedouble}
                     ELSE NullRead,
          fault |-> "Subvolume Base Size" \notin DOMAIN environment]
    ELSE [warn |-> 0,
          values |-> {environment["Subvolume Base Size"].valuedouble},
          fault |-> FALSE]

Shape(curObj) ==
    IF ~cJSON_bItemValid(curObj, "Shape", cJSON_String)
    THEN [warn |-> 1, value |-> RECTANGULAR_BOX]
    ELSE IF curObj["Shape"].valuestring \in {RECTANGLE, CIRCLE, RECTANGULAR_BOX, SPHERE, CYLINDER}
         THEN [warn |-> 0, value |-> curObj["Shape"].valuestring]
         ELSE [warn |-> 1, value |-> RECTANGULAR_BOX]

numX(curObj, minSubDim) == IntField(curObj, "Number of Subvolumes Along X", minSubDim, 1)

numY(curObj, minSubDim) == IntField(curObj, "Number of Subvolumes Along Y", minSubDim, 1)

numZ(curObj, minSubDim) == IntField(curObj, "Number of Subvolumes Along Z", minSubDim, 1)

\* The test misses the rectangle of three positive counts
RectangleImproperFlat(x, y, z) ==
    \/ x = 0 /\ (y < 1 \/ z < 1)
    \/ y = 0 /\ (x < 1 \/ z < 1)
    \/ z = 0 /\ (y < 1 \/ x < 1)

\* "Confirm that a rectangle region is actually 2D"
RectangleImproper(x, y, z) ==
    \/ x = 0 /\ (y < 1 \/ z < 1)
    \/ y = 0 /\ (x < 1 \/ z < 1)
    \/ z = 0 /\ (y < 1 \/ x < 1)
    \/ x > 0 /\ y > 0 /\ z > 0

Zero(n) == IF n = 0 THEN 1 ELSE 0

CylinderImproper(x, y, z) == Zero(x) + Zero(y) + Zero(z) # 2

Grid(shape, warn, x, y, z, improper, fix, minSubDim) ==
    [spec |-> IF improper
              THEN [shape |-> shape, numX |-> fix[1], numY |-> fix[2], numZ |-> fix[3]]
              ELSE [shape |-> shape, numX |-> x.value, numY |-> y.value, numZ |-> z.value],
     warn |-> warn.warn + x.warn + y.warn + z.warn + IF improper THEN 1 ELSE 0,
     minSubDim |-> minSubDim]

Unneeded(curObj, string) ==
    IF cJSON_bItemValid(curObj, string, cJSON_Number) THEN 1 ELSE 0

\* One turn of the loop over the regions: the fields of subvol_spec
\* [curArrayItem], the warnings of the turn and minSubDim after it
Region3D(curObj, shape, minSubDim) ==
    CASE shape.value = RECTANGLE ->
            Grid(RECTANGLE, shape, numX(curObj, 0), numY(curObj, 0), numZ(curObj, 0),
                 RectangleImproper(numX(curObj, 0).value, numY(curObj, 0).value, numZ(curObj, 0).value),
                 <<1, 1, 0>>, 0)
      [] shape.value = RECTANGULAR_BOX ->
            Grid(RECTANGULAR_BOX, shape, numX(curObj, 1), numY(curObj, 1), numZ(curObj, 1),
                 FALSE, <<1, 1, 1>>, 1)
      [] shape.value = CYLINDER ->
            Grid(CYLINDER, shape, numX(curObj, minSubDim), numY(curObj, minSubDim), numZ(curObj, minSubDim),
                 CylinderImproper(numX(curObj, minSubDim).value, numY(curObj, minSubDim).value, numZ(curObj, minSubDim).value),
                 <<1, 0, 0>>, minSubDim)
      [] OTHER ->
            [spec |-> [shape |-> shape.value, numX |-> 1, numY |-> 1, numZ |-> 1],
             warn |-> shape.warn + Unneeded(curObj, "Number of Subvolumes Along X")
                        + Unneeded(curObj, "Number of Subvolumes Along Y")
                        + Unneeded(curObj, "Number of Subvolumes Along Z"),
             minSubDim |-> minSubDim]

RECURSIVE RegionLoop(_, _, _)
RegionNext(region, regionSpec, curArrayItem) ==
    <<region>> \o RegionLoop(regionSpec, curArrayItem + 1, region.minSubDim)

RegionLoop(regionSpec, curArrayItem, minSubDim) ==
    IF curArrayItem < Len(regionSpec)
    THEN RegionNext(Region3D(regionSpec[curArrayItem + 1], Shape(regionSpec[curArrayItem + 1]), minSubDim),
                    regionSpec, curArrayItem)
    ELSE <<>>

RECURSIVE Warnings(_)
Warnings(fields) ==
    IF fields = <<>> THEN 0 ELSE Head(fields).warn + Warnings(Tail(fields))

\* The pause does not look at the override
PauseOnWarning(warned, override) == warned

\* "Pause for warnings if needed"
Pause(warned, override) == warned /\ ~override

\* loadConfig ended by the read of a missing base size
Faulted(override, warnings) ==
    [fatal |-> SegmentationFault, curSpec |-> <<>>, numWarn |-> warnings,
     bWarn |-> TRUE, bWarnOverride |-> override.value, ch |-> ""]

\* loadConfig for one value of the base size and one answer of the operator
Loaded(override, seed, repeat, final, micro, updates, size, regions, warnings, answer) ==
    [curSpec |-> [SEED |-> seed.value, NUM_REPEAT |-> repeat.value,
                  TIME_FINAL |-> final.value, DT_MICRO |-> micro.value,
                  MAX_UPDATES |-> updates.value, SUBVOL_BASE_SIZE |-> size,
                  NUM_REGIONS |-> Len(regions),
                  subvol_spec |-> [i \in 0..(Len(regions) - 1) |-> regions[i + 1].spec]],
     numWarn |-> warnings,
     bWarn |-> warnings > 0,
     bWarnOverride |-> override.value,
     ch |-> IF Pause(warnings > 0, override.value) THEN answer ELSE "",
     fatal |-> IF Pause(warnings > 0, override.value) /\ answer = "q"
               THEN "EXIT_FAILURE" ELSE NoError]

Outcomes(override, seed, repeat, final, micro, updates, base, regions, answer) ==
    {Loaded(override, seed, repeat, final, micro, updates, size, regions,
            Warnings(<<override, seed, repeat, final, micro, updates, base>> \o regions),
            answer) : size \in base.values}
    \cup
    {Faulted(override, Warnings(<<override, seed, repeat, final, micro, updates, base>>)) :
        fault \in {f \in {TRUE} : base.fault}}

\* The outcomes of loadConfig when the operator, if asked, gives the answer
loadConfig(json, seed, answer) ==
    Outcomes(WarningOverride(json), SEED(json["Simulation Control"], seed),
             NUM_REPEAT(json["Simulation Control"]), TIME_FINAL(json["Simulation Control"]),
             DT_MICRO(json["Simulation Control"]), MAX_UPDATES(json["Simulation Control"]),
             SUBVOL_BASE_SIZE(json["Environment"]),
             RegionLoop(json["Environment"]["Region Specification"], 0, 0), answer)

Answers == {"q", "y", "\n"}

EnvironmentObject(base, regions) ==
    IF base = Absent
    THEN "Region Specification" :> regions
    ELSE "Subvolume Base Size" :> base @@ "Region Specification" :> regions

Config(override, control, base, regions) ==
    IF override = Absent
    THEN "Simulation Control" :> control @@ "Environment" :> EnvironmentObject(base, regions)
    ELSE "Warning Override" :> override @@ "Simulation Control" :> control
            @@ "Environment" :> EnvironmentObject(base, regions)

InitConfig(configs, seeds) ==
    /\ pc = "input"
    /\ GeoIdle
    /\ ChemIdle
    /\ ObsIdle
    /\ SchedIdle
    /\ fatal = NoError
    /\ configJSON \in configs
    /\ customSEED \in seeds
    /\ curSpec = <<>>
    /\ numWarn = 0
    /\ bWarn = FALSE
    /\ bWarnOverride = FALSE
    /\ ch = ""

CallLoadConfig ==
    /\ pc = "input"
    /\ \E answer \in Answers : \E r \in loadConfig(configJSON, customSEED, answer) :
        /\ curSpec' = r.curSpec
        /\ numWarn' = r.numWarn
        /\ bWarn' = r.bWarn
        /\ bWarnOverride' = r.bWarnOverride
        /\ ch' = r.ch
        /\ fatal' = r.fatal
    /\ pc' = "loadConfig"
    /\ UNCHANGED <<geoVars, chemVars, obsVars, schedVars, configJSON, customSEED>>

Counts == {Absent} \cup {Number(n) : n \in (-1)..MaxCount}

RegionObject(shape, x, y, z) ==
    Object([n \in {"Shape", "Number of Subvolumes Along X", "Number of Subvolumes Along Y", "Number of Subvolumes Along Z"} |->
        CASE n = "Shape" -> shape
          [] n = "Number of Subvolumes Along X" -> x
          [] n = "Number of Subvolumes Along Y" -> y
          [] OTHER -> z])

BoxRegion == RegionObject(String(RECTANGULAR_BOX), Number(1), Number(1), Number(1))

ControlObject(seed, repeat, final, micro, updates) ==
    Object([n \in {"Random Number Seed", "Number of Repeats", "Final Simulation Time", "Global Microscopic Time Step", "Max Number of Progress Updates"} |->
        CASE n = "Random Number Seed" -> seed
          [] n = "Number of Repeats" -> repeat
          [] n = "Final Simulation Time" -> final
          [] n = "Global Microscopic Time Step" -> micro
          [] OTHER -> updates])

GoodControl == ControlObject(Number(1), Number(1), Number(1), Number(1), Number(1))

\* The fields of the simulation control and the base size, one box region
FieldConfigs ==
    {Config(override, ControlObject(seed, repeat, final, micro, updates), base, <<BoxRegion>>) :
        override \in {Absent, Boolean(TRUE), Boolean(FALSE)},
        seed \in {Absent, Number(MaxCount)},
        repeat \in {Absent, Number(-1), Number(MaxCount)},
        final \in {Absent, Number(-1), Number(MaxCount)},
        micro \in {Absent, Number(MaxCount)},
        updates \in {Absent, Number(MaxCount)},
        base \in Counts}

InitFields == InitConfig(FieldConfigs, {0, 1})

NextFields == CallLoadConfig

SpecFields == InitFields /\ [][NextFields]_vars

\* Regions of every shape and every count, all other fields valid
RegionObjects ==
    {RegionObject(shape, x, y, z) :
        shape \in {String(RECTANGLE), String(RECTANGULAR_BOX), String(CYLINDER), String(SPHERE)},
        x \in Counts, y \in Counts, z \in Counts}

RegionConfigs ==
    {Config(Boolean(TRUE), GoodControl, Number(1), regions) :
        regions \in UNION {[1..n -> RegionObjects] : n \in 1..MaxRegions}}

InitRegions == InitConfig(RegionConfigs, {0})

NextRegions == CallLoadConfig

SpecRegions == InitRegions /\ [][NextRegions]_vars


-----------------------------------------------------------------------------
(* Claims about loadConfig *)

\* The configuration gives no number of at least `least` under the name
Lacks(object, string, least) ==
    \/ string \notin DOMAIN object
    \/ object[string].valueint < least

Control == configJSON["Simulation Control"]

Environment == configJSON["Environment"]

LackingFields ==
    {n \in {"Number of Repeats", "Final Simulation Time", "Global Microscopic Time Step", "Max Number of Progress Updates"} : Lacks(Control, n, 0)}
    \cup {n \in {"Random Number Seed"} : customSEED = 0 /\ n \notin DOMAIN Control}
    \cup {n \in {"Warning Override"} : n \notin DOMAIN configJSON}
    \cup {n \in {"Subvolume Base Size"} : Lacks(Environment, n, 1)}

DefaultsStored(names) ==
    /\ "Random Number Seed" \in names => curSpec.SEED = 0
    /\ "Number of Repeats" \in names => curSpec.NUM_REPEAT = 1
    /\ "Final Simulation Time" \in names => curSpec.TIME_FINAL = 0
    /\ "Global Microscopic Time Step" \in names => curSpec.DT_MICRO = 0
    /\ "Max Number of Progress Updates" \in names => curSpec.MAX_UPDATES = 10
    /\ "Subvolume Base Size" \in names => curSpec.SUBVOL_BASE_SIZE = 1

\* C14: for every field loadConfig reads, when the field is absent or invalid
\* loadConfig stores the default named in the warning and counts one warning,
\* and loading continues; this includes "Subvolume Base Size", whose default
\* is 1 when it is missing or not positive.  (Stated for the fields of the
\* simulation control and the base size; a load that the read of a missing
\* item ended is left out.)
C14_AbsentFieldGetsDefault ==
    (pc = "loadConfig" /\ fatal # SegmentationFault) =>
        /\ DefaultsStored(LackingFields)
        /\ numWarn = Cardinality(LackingFields)

OverrideSet ==
    /\ "Warning Override" \in DOMAIN configJSON
    /\ configJSON["Warning Override"].type = cJSON_True

\* C15: at the end of loadConfig the program waits for the operator exactly
\* when at least one warning was raised and the warning override is not set;
\* when it waits, the answer 'q' ends the program with a failure exit and any
\* other answer continues.
C15_WaitsIffWarnedWithoutOverride ==
    (pc = "loadConfig" /\ fatal # SegmentationFault) =>
        /\ ch # "" <=> (numWarn >= 1 /\ ~OverrideSet)
        /\ fatal = (IF ch = "q" THEN "EXIT_FAILURE" ELSE NoError)

C15_Witness ==
    /\ pc = "loadConfig"
    /\ numWarn >= 1
    /\ ~OverrideSet
    /\ ch = "q"
    /\ fatal = "EXIT_FAILURE"

Zeros(region) == Zero(region.numX) + Zero(region.numY) + Zero(region.numZ)

Least(region) ==
    IF region.numX <= region.numY /\ region.numX <= region.numZ THEN region.numX
    ELSE IF region.numY <= region.numZ THEN region.numY ELSE region.numZ

GridInvariant(region) ==
    /\ region.shape = RECTANGLE => Zeros(region) = 1 /\ Least(region) = 0
    /\ region.shape = CYLINDER => Zeros(region) = 2 /\ Least(region) = 0
    /\ region.shape = RECTANGULAR_BOX => Least(region) >= 1

\* C16: after loadConfig every region satisfies the grid invariant of its
\* shape whatever the configuration gave: a rectangle has exactly one of
\* numX, numY, numZ zero and the other two at least 1, a cylinder exactly two
\* zero, a box all three at least 1.
C16_GridInvariantAfterLoad ==
    pc = "loadConfig" =>
        \A i \in DOMAIN curSpec.subvol_spec : GridInvariant(curSpec.subvol_spec[i])

Given(curObj, string) ==
    IF string \in DOMAIN curObj THEN curObj[string].valueint ELSE -1

GivenGrid(curObj) ==
    [numX |-> Given(curObj, "Number of Subvolumes Along X"),
     numY |-> Given(curObj, "Number of Subvolumes Along Y"),
     numZ |-> Given(curObj, "Number of Subvolumes Along Z")]

\* A rectangle that was given three positive counts is loaded in the XY plane
C16_Witness ==
    /\ pc = "loadConfig"
    /\ \E i \in DOMAIN curSpec.subvol_spec :
        /\ curSpec.subvol_spec[i].shape = RECTANGLE
        /\ Least(GivenGrid(Environment["Region Specification"][i + 1])) >= 1
        /\ curSpec.subvol_spec[i].numZ = 0

\* C17: a cylinder region whose configuration gives exactly two zero counts
\* and one positive count is loaded with exactly those counts, at whatever
\* position of the region list and whatever the shapes of the regions before.
C17_CylinderCountsAreKept ==
    pc = "loadConfig" =>
        \A i \in DOMAIN curSpec.subvol_spec :
            (/\ "Shape" \in DOMAIN Environment["Region Specification"][i + 1]
             /\ Environment["Region Specification"][i + 1]["Shape"].valuestring = CYLINDER
             /\ Zeros(GivenGrid(Environment["Region Specification"][i + 1])) = 2
             /\ Least(GivenGrid(Environment["Region Specification"][i + 1])) = 0)
            => /\ curSpec.subvol_spec[i].shape = CYLINDER
               /\ curSpec.subvol_spec[i].numX = GivenGrid(Environment["Region Specification"][i + 1]).numX
               /\ curSpec.subvol_spec[i].numY = GivenGrid(Environment["Region Specification"][i + 1]).numY
               /\ curSpec.subvol_spec[i].numZ = GivenGrid(Environment["Region Specification"][i + 1]).numZ


-----------------------------------------------------------------------------
(* The list of observations (file_io.c) *)

MaxObs == 2
MaxValue == 1

NULL == 0

\* The arrays of the caller: paramDouble, paramUllong and molPos
Caller == [paramDouble |-> 1, paramUllong |-> 2, molPos |-> 3]

Positions == 0..MaxValue

\* The address malloc returns when it does not fail: one that is not in use
malloc(h, taken) ==
    CHOOSE a \in 4..(Cardinality(DOMAIN h) + Cardinality(taken) + 4) :
        /\ a \notin DOMAIN h \cup taken
        /\ \A b \in 4..(a - 1) : b \in DOMAIN h \cup taken

\* A list of molecules by the number of molecules at each position
\* (addMolecule3D is not among the sources; the order it keeps is left open)
EmptyListMol3D == [pos \in Positions |-> 0]

addMolecule3D(p_list, pos) == [p_list EXCEPT ![pos] = @ + 1]

\* "while (molPosList != NULL) addMolecule3D(molPosListNew[curMolInd], ...)"
RECURSIVE CopyMolecules(_, _)
CopyMolecules(molPosList, molPosListNew) ==
    IF molPosList = <<>>
    THEN molPosListNew
    ELSE CopyMolecules(Tail(molPosList), addMolecule3D(molPosListNew, Head(molPosList)))

\* "Copy array data"
CopyArray(param, num) == [curData \in 1..num |-> param[curData]]

CopyLists(molPos, numMolTypeObs) ==
    [curMolInd \in 1..numMolTypeObs |-> CopyMolecules(molPos[curMolInd], EmptyListMol3D)]

isListEmptyObs3D(lst) == lst.head = NULL

initializeListObs3D(numMolTypeObs) ==
    [numMolTypeObs |-> numMolTypeObs, head |-> NULL, tail |-> NULL]

\* The new node is put before the head instead of behind the tail
addItem3DFirst(item, lst, h, p_new) ==
    {[ret |-> TRUE, fatal |-> NoError,
      list |-> [lst EXCEPT !.head = p_new, !.tail = IF lst.tail = NULL THEN p_new ELSE @],
      heap |-> h @@ (p_new :> [item |-> item, next |-> lst.head])]}

\* The node of the item at the end of the list.  A tail that points to a
\* freed node makes "list->tail->next = p_new" a write to freed memory, after
\* which the program goes on or ends.
addItem3D(item, lst, h, p_new) ==
    IF lst.tail = NULL
    THEN {[ret |-> TRUE, fatal |-> NoError,
           list |-> [lst EXCEPT !.head = p_new, !.tail = p_new],
           heap |-> h @@ (p_new :> [item |-> item, next |-> NULL])]}
    ELSE IF lst.tail \in DOMAIN h
    THEN {[ret |-> TRUE, fatal |-> NoError,
           list |-> [lst EXCEPT !.tail = p_new],
           heap |-> [h EXCEPT ![lst.tail].next = p_new] @@ (p_new :> [item |-> item, next |-> NULL])]}
    ELSE {[ret |-> TRUE, fatal |-> NoError,
           list |-> [lst EXCEPT !.tail = p_new],
           heap |-> h @@ (p_new :> [item |-> item, next |-> NULL])],
          [ret |-> FALSE, fatal |-> SegmentationFault, list |-> lst, heap |-> h]}

\* The blocks of a new observation
NewBlocks(h, numDouble, numUllong, numMolTypeObs, new) ==
    (new.paramDouble :> CopyArray(h[Caller.paramDouble], numDouble))
    @@ (new.molPos :> CopyLists(h[Caller.molPos], numMolTypeObs))
    @@ (IF new.paramUllong = NULL THEN <<>>
        ELSE new.paramUllong :> CopyArray(h[Caller.paramUllong], numUllong))
    @@ h

\* mem tells which of the allocations succeed
addObservation3D(lst, h, numDouble, numUllong, mem, new) ==
    IF ~mem.paramDoubleNew \/ ~mem.molPosListNew
    THEN {[ret |-> FALSE, fatal |-> NoError, list |-> lst, heap |-> h]}
    ELSE IF new.paramUllong = NULL /\ numUllong > 0
    THEN {[ret |-> FALSE, fatal |-> SegmentationFault, list |-> lst, heap |-> h]}
    ELSE IF ~mem.p_new
    THEN {[ret |-> FALSE, fatal |-> NoError, list |-> lst, heap |-> h]}
    ELSE addItem3D([numDouble |-> numDouble, numUllong |-> numUllong,
                    paramDouble |-> new.paramDouble, paramUllong |-> new.paramUllong,
                    molPos |-> new.molPos],
                   lst, NewBlocks(h, numDouble, numUllong, lst.numMolTypeObs, new), new.p_new)

\* The nodes from p_node on, in the order of their next pointers
RECURSIVE Nodes(_, _)
Nodes(h, p_node) ==
    IF p_node = NULL \/ p_node \notin DOMAIN h
    THEN <<>>
    ELSE <<p_node>> \o Nodes(h, h[p_node].next)

\* The items traverse3D hands to p_fun, one after the other
traverse3D(lst, h) == [n \in 1..Len(Nodes(h, lst.head)) |-> h[Nodes(h, lst.head)[n]].item]

Freed(h, nodes) ==
    {nodes[n] : n \in 1..Len(nodes)}
    \cup {h[nodes[n]].item.paramDouble : n \in 1..Len(nodes)}
    \cup {h[nodes[n]].item.paramUllong : n \in 1..Len(nodes)}
    \cup {h[nodes[n]].item.molPos : n \in 1..Len(nodes)}

\* emptyListObs3D frees the nodes and their blocks and advances the head to
\* NULL; it does not write the tail
emptyListObs3D(lst, h) ==
    [list |-> [lst EXCEPT !.head = NULL],
     heap |-> [a \in DOMAIN h \ Freed(h, Nodes(h, lst.head)) |-> h[a]]]

\* What the caller holds in its arrays at a call
Observations ==
    {[paramDouble |-> <<v>>, paramUllong |-> <<>>, molPos |-> << <<>> >>] : v \in 0..MaxValue}
    \cup {[paramDouble |-> <<v>>, paramUllong |-> <<v>>, molPos |-> << <<MaxValue, 0>> >>] : v \in 0..MaxValue}

\* Every allocation succeeds, or one of them fails
Memory ==
    {[paramDoubleNew |-> fails # 1, paramUllongNew |-> fails # 2,
      molPosListNew |-> fails # 3, p_new |-> fails # 4] : fails \in 0..4}

Allocated(h, mem) ==
    [paramDouble |-> malloc(h, {}),
     paramUllong |-> IF mem.paramUllongNew THEN malloc(h, {malloc(h, {})}) ELSE NULL,
     molPos |-> malloc(h, {malloc(h, {}), malloc(h, {malloc(h, {})})}),
     p_new |-> malloc(h, {malloc(h, {}), malloc(h, {malloc(h, {})}),
                          malloc(h, {malloc(h, {}), malloc(h, {malloc(h, {})})})})]

Written(h, obs) ==
    [h EXCEPT ![Caller.paramDouble] = obs.paramDouble,
              ![Caller.paramUllong] = obs.paramUllong,
              ![Caller.molPos] = obs.molPos]

InitObs ==
    /\ pc = "list"
    /\ GeoIdle
    /\ ChemIdle
    /\ ConfigIdle
    /\ SchedIdle
    /\ fatal = NoError
    /\ list = initializeListObs3D(1)
    /\ heap = (Caller.paramDouble :> <<0>>) @@ (Caller.paramUllong :> <<>>) @@ (Caller.molPos :> << <<>> >>)
    /\ given = <<>>
    /\ initialized = TRUE

\* The caller fills its arrays and adds the observation
CallAddObservation3D ==
    /\ pc = "list"
    /\ fatal = NoError
    /\ Cardinality(DOMAIN heap) < 3 + 4 * MaxObs
    /\ \E obs \in Observations : \E mem \in Memory :
        \E r \in addObservation3D(list, Written(heap, obs), Len(obs.paramDouble),
                                  Len(obs.paramUllong), mem, Allocated(heap, mem)) :
            /\ list' = r.list
            /\ heap' = r.heap
            /\ fatal' = r.fatal
            /\ given' = IF r.ret THEN Append(given, obs) ELSE given
    /\ UNCHANGED <<pc, geoVars, chemVars, cfgVars, schedVars, initialized>>

CallEmptyListObs3D ==
    /\ pc = "list"
    /\ fatal = NoError
    /\ \E r \in {emptyListObs3D(list, heap)} :
        /\ list' = r.list
        /\ heap' = r.heap
    /\ given' = <<>>
    /\ initialized' = FALSE
    /\ UNCHANGED <<pc, geoVars, chemVars, cfgVars, schedVars, fatal>>

\* The list is initialized again when it holds no observation
CallInitializeListObs3D ==
    /\ pc = "list"
    /\ fatal = NoError
    /\ isListEmptyObs3D(list)
    /\ list' = initializeListObs3D(1)
    /\ given' = <<>>
    /\ initialized' = TRUE
    /\ UNCHANGED <<pc, geoVars, chemVars, cfgVars, schedVars, fatal, heap>>

NextObs ==
    \/ CallAddObservation3D
    \/ CallEmptyListObs3D
    \/ CallInitializeListObs3D

SpecObs == InitObs /\ [][NextObs]_vars

-----------------------------------------------------------------------------
(* Claims about the list of observations *)

Molecules3D(molPosList) ==
    [pos \in Positions |-> Cardinality({n \in 1..Len(molPosList) : molPosList[n] = pos})]

\* What an item of the list holds, read through its pointers
Held(item) ==
    [paramDouble |-> heap[item.paramDouble],
     paramUllong |-> IF item.paramUllong = NULL THEN <<>> ELSE heap[item.paramUllong],
     molPos |-> heap[item.molPos]]

Kept(obs) ==
    [paramDouble |-> obs.paramDouble,
     paramUllong |-> obs.paramUllong,
     molPos |-> [curMolInd \in 1..Len(obs.molPos) |-> Molecules3D(obs.molPos[curMolInd])]]

\* C18: after any sequence of addObservation3D calls on an initialized list,
\* the traversal from the head yields exactly the observations added, in the
\* order they were added, each with its own copy of the time, count and
\* position data given at its call (positions as the molecules at each
\* position); only emptying removes observations.
C18_TraversalYieldsAddedInOrder ==
    (pc = "list" /\ initialized /\ fatal = NoError) =>
        /\ Len(traverse3D(list, heap)) = Len(given)
        /\ \A n \in 1..Len(given) : Held(traverse3D(list, heap)[n]) = Kept(given[n])

\* Two observations with different data are in the list, the arrays of the
\* caller holding the data of the second
C18_Witness ==
    /\ pc = "list"
    /\ initialized
    /\ Len(given) = 2
    /\ Len(traverse3D(list, heap)) = 2
    /\ given[1].paramDouble # given[2].paramDouble
    /\ given[1].molPos # given[2].molPos
    /\ Len(given[1].paramUllong) = 1


-----------------------------------------------------------------------------
(* The scheduler.  Its code is not among the sources; the queue of events is
   modelled from its specification: the kinds of events, their reinsertion
   after they fired, the pop of the minimum and the termination. *)

FinalTime == 3
MaxStep == 2
MaxTau == 1
MaxActions == 2

ActorAction == "ActorAction"
MicroStep == "MicroStep"
MesoEvent == "MesoEvent"

\* The stable priority that breaks ties: actor < micro < meso
Priority(kind) ==
    CASE kind = ActorAction -> 0
      [] kind = MicroStep -> 1
      [] kind = MesoEvent -> 2

\* The pop takes the events by their times only
EarlierByTime(e, f) ==
    \/ e.time < f.time
    \/ e.time = f.time /\ e.kind = f.kind /\ e.id <= f.id

\* e is due before f, or both are the same event
Earlier(e, f) ==
    \/ e.time < f.time
    \/ e.time = f.time /\ Priority(e.kind) < Priority(f.kind)
    \/ e.time = f.time /\ e.kind = f.kind /\ e.id <= f.id

\* The events a pop may take: those no other event is due before
Minimum(events) == {e \in events : \A f \in events : Earlier(e, f) \/ ~Earlier(f, e)}

\* The events that replace a fired event: a micro step is reinserted at
\* t + dt, a mesoscopic event with its refreshed time, an actor at its next
\* action time unless it has consumed its actions
Reinserted(e) ==
    CASE e.kind = MicroStep -> {[e EXCEPT !.time = e.time + e.step]}
      [] e.kind = MesoEvent -> {[e EXCEPT !.time = e.time + tau] : tau \in 0..MaxTau}
      [] e.kind = ActorAction ->
            IF e.left > 1
            THEN {[e EXCEPT !.time = e.time + e.step, !.left = e.left - 1]}
            ELSE {}

\* Termination: t > final_time, or every actor has consumed its actions
Terminated(events, e) ==
    \/ e.time > FinalTime
    \/ \A f \in events : f.kind # ActorAction

Event(e) == [kind |-> e.kind, id |-> e.id, time |-> e.time]

InitSched ==
    /\ pc = "scheduler"
    /\ GeoIdle
    /\ ChemIdle
    /\ ConfigIdle
    /\ ObsIdle
    /\ fatal = NoError
    /\ \E actor \in [kind : {ActorAction}, id : {0}, time : 0..1, step : 1..MaxStep, left : 1..MaxActions],
          micro \in [kind : {MicroStep}, id : {0}, time : {0}, step : 1..MaxStep, left : {0}],
          meso \in [0..1 -> 0..MaxTau] :
        queue = {actor, micro} \cup
                {[kind |-> MesoEvent, id |-> sub, time |-> meso[sub], step |-> 0, left |-> 0] : sub \in 0..1}
    /\ popped = NoEvent
    /\ previous = NoEvent

\* Pop the minimum, run its action to completion, reinsert it
Pop ==
    /\ pc = "scheduler"
    /\ \E e \in Minimum(queue) :
        /\ ~Terminated(queue, e)
        /\ \E new \in IF Reinserted(e) = {} THEN {{}} ELSE {{r} : r \in Reinserted(e)} :
            queue' = (queue \ {e}) \cup new
        /\ popped' = Event(e)
        /\ previous' = popped
    /\ UNCHANGED <<pc, geoVars, chemVars, cfgVars, obsVars, fatal>>

NextSched == Pop

SpecSched == InitSched /\ [][NextSched]_vars

-----------------------------------------------------------------------------
(* Claims about the scheduler *)

\* C19: in every run of the scheduler the times of the popped events are
\* non-decreasing, and among events due at the same time an actor action is
\* popped before a micro step and a micro step before a mesoscopic event.
C19_PopsInTimeAndPriorityOrder ==
    (pc = "scheduler" /\ previous # NoEvent) =>
        /\ previous.time <= popped.time
        /\ previous.time = popped.time => Priority(previous.kind) <= Priority(popped.kind)
        /\ \A e \in queue :
            \/ popped.time < e.time
            \/ popped.time = e.time /\ Priority(popped.kind) <= Priority(e.kind)

\* An actor action, then a micro step of the same time, a mesoscopic event
\* of that time still pending
C19_Witness ==
    /\ pc = "scheduler"
    /\ previous.kind = ActorAction
    /\ popped.kind = MicroStep
    /\ previous.time = popped.time
    /\ popped.time > 0
    /\ \E e \in queue : e.kind = MesoEvent /\ e.time = popped.time


-----------------------------------------------------------------------------
(* Claims about the cylinder / box case of bBoundaryIntersect *)

\* the axial extents of a cylinder and a box overlap
AxialOverlap(cyl, box, clear) ==
    /\ box[2 * Along(cyl[4])] <= cyl[Along(cyl[4])] + cyl[5] - clear
    /\ box[2 * Along(cyl[4]) + 1] >= cyl[Along(cyl[4])] + clear

\* some corner of the cross-section rectangle of the box lies within the
\* disk of the cylinder, shrunk by the clearance
SomeCornerInDisk(cyl, box, clear) ==
    \E i \in {2 * Across1(cyl[4]), 2 * Across1(cyl[4]) + 1} :
      \E j \in {2 * Across2(cyl[4]), 2 * Across2(cyl[4]) + 1} :
        SqrtLeq(CornerDistSq(box, i, j, cyl), cyl[3] - clear)

\* the centre of the disk lies inside the cross-section rectangle
CentreInRectangle(cyl, box) ==
    /\ cyl[Across1(cyl[4])] >= box[2 * Across1(cyl[4])]
    /\ cyl[Across1(cyl[4])] <= box[2 * Across1(cyl[4]) + 1]
    /\ cyl[Across2(cyl[4])] >= box[2 * Across2(cyl[4])]
    /\ cyl[Across2(cyl[4])] <= box[2 * Across2(cyl[4]) + 1]

CrossSectionsMeet(cyl, box, clear) ==
    /\ AxialOverlap(cyl, box, clear)
    /\ SomeCornerInDisk(cyl, box, clear) \/ CentreInRectangle(cyl, box)

\* C20: for a cylinder and a box whose axial extents overlap,
\* bBoundaryIntersect returns true whenever one of the four corners of the
\* cross-section rectangle of the box lies within the disk of the cylinder
\* (shrunk by the clearance) or the centre of the disk lies inside the
\* rectangle, in both orders of the arguments.
C20_EveryCornerIsTested ==
    pc = "bBoundaryIntersect" =>
        /\ (boundary1Type = CYLINDER /\ boundary2Type = RECTANGULAR_BOX
                /\ CrossSectionsMeet(boundary1, boundary2, clearance))
             => ret = TRUE
        /\ (boundary1Type = RECTANGULAR_BOX /\ boundary2Type = CYLINDER
                /\ CrossSectionsMeet(boundary2, boundary1, clearance))
             => ret = TRUE

-----------------------------------------------------------------------------
(* bBoundaryAdjacent on two cylinders *)

InitCylinders == InitPair({CYLINDER}, {CYLINDER})

NextCylinders == CallAdjacent

SpecCylinders == InitCylinders /\ [][NextCylinders]_vars

\* the direction of the lower / upper cap of a cylinder of the given plane
LowerCap(plane) ==
    CASE plane = PLANE_XY -> DirIN
      [] plane = PLANE_XZ -> DOWN
      [] plane = PLANE_YZ -> LEFT

UpperCap(plane) ==
    CASE plane = PLANE_XY -> DirOUT
      [] plane = PLANE_XZ -> UP
      [] plane = PLANE_YZ -> RIGHT

\* the cross-sections of two cylinders of the same orientation overlap,
\* the tolerance included
RadialOverlap(a, b, distErr) ==
    SqrtLeq(squareDBL(a[Across1(a[4])] - b[Across1(a[4])])
                + squareDBL(a[Across2(a[4])] - b[Across2(a[4])]),
            a[3] + b[3] + distErr)

\* the lower cap of a lies within distErr of the upper cap of b
LowerCapFaces(a, b, distErr) ==
    fabs(a[Along(a[4])] - (b[Along(a[4])] + b[5])) <= distErr

\* the upper cap of a lies within distErr of the lower cap of b
UpperCapFaces(a, b, distErr) ==
    fabs(b[Along(a[4])] - (a[Along(a[4])] + a[5])) <= distErr

CapsAdjacent(a, b, distErr, dir) ==
    /\ RadialOverlap(a, b, distErr)
    /\ \/ dir = LowerCap(a[4]) /\ LowerCapFaces(a, b, distErr)
       \/ dir = UpperCap(a[4]) /\ UpperCapFaces(a, b, distErr)

\* C21: for two cylinders of the same orientation bBoundaryAdjacent returns
\* true only if their cross-sections overlap radially and an end cap of the
\* first lies within distError of the facing end cap of the second; the
\* direction is that of the lower or upper cap of the first cylinder, for
\* each of the three orientations.
C21_CylindersAdjacentAtFacingCaps ==
    (/\ pc = "bBoundaryAdjacent"
     /\ boundary1Type = CYLINDER
     /\ boundary2Type = CYLINDER
     /\ boundary1[4] = boundary2[4]
     /\ ret = TRUE)
        => CapsAdjacent(InHalfUnits(CYLINDER, boundary1),
                        InHalfUnits(CYLINDER, boundary2), distError, direction)

-----------------------------------------------------------------------------
(* The divisions of bLineHitInfinitePlane and of the cap test of
   bLineHitBoundary *)

InitDivide == InitRay({RECTANGLE, RECTANGULAR_BOX, CYLINDER})

NextDivide == CallLineHit

SpecDivide == InitDivide /\ [][NextDivide]_vars

\* the axes i whose L[i] a call of bLineHitBoundary divides by: the axis
\* across the plane of a rectangle, every axis for the six faces of a box,
\* the axis of a cylinder for its two caps
DividedBy(b1Type, b1, planeIDConst) ==
    CASE b1Type = RECTANGLE ->
           (CASE planeIDConst = PLANE_XY -> {2}
              [] planeIDConst = PLANE_XZ -> {1}
              [] planeIDConst = PLANE_YZ -> {0}
              [] OTHER -> {})
      [] b1Type = RECTANGULAR_BOX -> {curPlane \div 2 : curPlane \in 0..5}
      [] b1Type = CYLINDER ->
           IF ValidPlane(b1[4]) THEN {Along(b1[4])} ELSE {}
      [] OTHER -> {}

\* the plane the caller named: *planeID before the call for a rectangle
NamedPlane == PlanesOf(boundary1Type, boundary1)

\* C22: in bLineHitInfinitePlane and in the cap test of bLineHitBoundary the
\* division by L[axis] is never executed with L[axis] equal to zero: a
\* segment parallel to the tested plane, or the zero vector of defineLine
\* for coincident points, is rejected before the division.
C22_NoDivisionByZero ==
    pc = "bLineHitBoundary" =>
        \A plane \in NamedPlane :
            \A axis \in DividedBy(boundary1Type, boundary1, plane) :
                NSign(L[axis]) # 0

-----------------------------------------------------------------------------
(* Claims about the first order reactions of a reactant *)

\* The reactions of chem_rxn that the entries of firstRxnID[m] of region i
\* stand for: an entry is the position of a reaction in the list of the
\* region
ListedFirst(i, m) ==
    {rxnInRegionID[i][regionArray[i].firstRxnID[m][n] + 1] :
        n \in 1..Len(regionArray[i].firstRxnID[m])}

\* The admitted first order reactions of region i with reactant m
AdmittedFirst(i, m) ==
    {j \in DOMAIN chem_rxn : Admitted(j, i) /\ FirstOrderOf(j, m)}

\* C23: for each region and each molecule type j, the list firstRxnID[j]
\* built by initializeRegionChemRxn contains exactly the reactions admitted
\* in that region that are first order and have j as their sole reactant,
\* also when the region admits only some of the reactions.
C23_FirstRxnIDListsReactionsOfReactant ==
    (pc = "initializeRegionChemRxn" /\ fatal = NoError) =>
        \A i \in DOMAIN regionArray : \A m \in Molecules :
            /\ ListedFirst(i, m) = AdmittedFirst(i, m)
            /\ regionArray[i].numFirstCurReactant[m] =
                 Cardinality(AdmittedFirst(i, m))

-----------------------------------------------------------------------------
(* Rates: first order reactions of finite and infinite rate, normal and
   absorbing, in one normal region that admits the reactions defined
   everywhere *)

RateRxns ==
    {[Reaction(e, FALSE, t, FirstOrder(j), <<>>) EXCEPT !.k = k] :
        e \in BOOLEAN, t \in {RXN_NORMAL, RXN_ABSORBING}, j \in Molecules,
        k \in {NInt(1), INFINITY}}

RateSpecs ==
    [type : {REGION_NORMAL}, surfaceType : {SURFACE_INNER}, label : {""}]

InitRates ==
    InitChem([1..MaxRxns -> RateRxns], {<<Region(s)>> : s \in RateSpecs})

NextRates == CallInitializeRegionChemRxn

SpecRates == InitRates /\ [][NextRates]_vars

\* The positions in firstRxnID[m] of region i whose rate is infinite
InfinitePositions(i, m) ==
    {n \in 1..Len(regionArray[i].firstRxnID[m]) :
        IsInfinite(regionArray[i].rxnRate[regionArray[i].firstRxnID[m][n] + 1])}

\* None of the first order reactions of reactant m admitted in region i is
\* absorbing: their entries are those of the cumulative table
NormalBranch(i, m) ==
    \A n \in 1..Len(regionArray[i].firstRxnID[m]) :
        chem_rxn[rxnInRegionID[i][regionArray[i].firstRxnID[m][n] + 1]].surfRxnType
            # RXN_ABSORBING

\* C24: when n >= 1 first order reactions of one reactant in a region have
\* an infinite rate, each of them receives the relative rate 1/n and adds
\* 1/n to the cumulative probability table, so that the last entry of the
\* table of that reactant equals 1, for every n.
C24_InfiniteRatesShareUnitMass ==
    (pc = "initializeRegionChemRxn" /\ fatal = NoError) =>
        \A i \in DOMAIN regionArray : \A m \in Molecules :
            (InfinitePositions(i, m) # {} /\ NormalBranch(i, m)) =>
                /\ \A n \in InfinitePositions(i, m) :
                     Cardinality(InfinitePositions(i, m))
                        * regionArray[i].uniRelativeRate[m][n].unit = 1
                /\ regionArray[i].uniCumProb[m][Len(regionArray[i].firstRxnID[m])].unit = 1

\* The reactant of a first order reaction
Reactant(rxn) == CHOOSE m \in Molecules : rxn.reactants[m] > 0

\* The positions of the absorbing first order reactions in the list of
\* region i
AbsorbingPositions(i) ==
    {j \in 1..Len(rxnInRegionID[i]) :
        /\ num_reactants(chem_rxn[rxnInRegionID[i][j]], 0) = 1
        /\ chem_rxn[rxnInRegionID[i][j]].surfRxnType = RXN_ABSORBING}

\* C25: for an absorbing first order reaction admitted in a region, the
\* region rate is computed from the diffusion coefficient of the reactant of
\* the reaction in that region, and the index that reads the table of the
\* diffusion coefficients is a molecule type (less than NUM_MOL_TYPES).
C25_AbsorbingRateReadsCoefficientOfReactant ==
    (pc = "initializeRegionChemRxn" /\ fatal = NoError) =>
        \A i \in DOMAIN regionArray : \A j \in AbsorbingPositions(i) :
            /\ regionArray[i].rxnRate[j].coef =
                 {Reactant(chem_rxn[rxnInRegionID[i][j]])}
            /\ \A c \in regionArray[i].rxnRate[j].coef : c < MaxMolTypes

-----------------------------------------------------------------------------
(* bPointOnFace on a cylinder *)

\* cylinders of positive length, as long as their radius or longer
FaceCylinders ==
    {Vec6(c[1], c[2], c[3], r[1], r[2], r[3]) :
        c \in (0..MaxCenter) \X (0..MaxCenter) \X (0..MaxCenter),
        r \in (1..MaxRadius) \X {PLANE_XY, PLANE_XZ, PLANE_YZ}
                \X (1..(MaxLen + 1))}

InitFace ==
    /\ pc = "input"
    /\ RestIdle
    /\ boundary1Type = CYLINDER
    /\ boundary1 \in FaceCylinders
    /\ boundary2Type = UNDEFINED_SHAPE
    /\ boundary2 = Zeros6
    /\ clearance = 0
    /\ distError = 0
    /\ ret = FALSE
    /\ direction = NoDirection
    /\ intersection = Zeros6
    /\ oldPoint = Origin
    /\ curPoint = Origin
    /\ L = NPoint(Origin)
    /\ length = NInt(0)
    /\ planeID \in 0..5
    /\ d = NInt(0)
    /\ intersectPoint = NPoint(Origin)
    /\ newPoint = NPoint(Origin)
    /\ first = NoReflection
    /\ point \in {NPoint(p) : p \in Points}
    /\ bSurface = FALSE
    /\ volume = NoVolume

CallPointOnFace ==
    /\ pc = "input"
    /\ ret' = bPointOnFace(point, boundary1Type, boundary1, planeID)
    /\ pc' = "bPointOnFace"
    /\ UNCHANGED <<restVars, rayIdle, rayVars>>

NextFace == CallPointOnFace

SpecFace == InitFace /\ [][NextFace]_vars

\* planeID names the lower or the upper cap of cylinder b1
IsCap(b1, plane) == plane \in {2 * Along(b1[4]), 2 * Along(b1[4]) + 1}

\* point p lies in the plane of the cap that plane names
OnCapPlane(p, b1, plane) ==
    IF plane = 2 * Along(b1[4])
    THEN NEq(p[Along(b1[4])], NInt(b1[Along(b1[4])]))
    ELSE NEq(p[Along(b1[4])], NInt(b1[Along(b1[4])] + b1[5]))

\* point p lies on the mantle of cylinder b1
OnMantle(p, b1) ==
    /\ NSqrtEq(RadialSq(p, b1), NInt(b1[3]))
    /\ Between(p[Along(b1[4])], b1[Along(b1[4])], b1[Along(b1[4])] + b1[5])

\* C26: for a cylinder of any orientation bPointOnFace compares the radial
\* distance of the point with the radius of the cylinder: a point on the
\* plane of an end cap is on that cap exactly when its radial distance is
\* <= radius, and a point is on the mantle exactly when its radial distance
\* equals the radius and its axial coordinate lies in
\* [anchor, anchor + length].
C26_PointOnFaceComparesWithRadius ==
    (pc = "bPointOnFace" /\ boundary1Type = CYLINDER) =>
        IF IsCap(boundary1, planeID)
        THEN OnCapPlane(point, boundary1, planeID) =>
                (ret <=> NSqrtLeq(RadialSq(point, boundary1), NInt(boundary1[3])))
        ELSE ret <=> OnMantle(point, boundary1)

-----------------------------------------------------------------------------
(* boundaryVolume *)

InitVolume ==
    InitPoint({RECTANGLE, RECTANGULAR_BOX, SPHERE, CYLINDER},
              {NPoint(Origin)}, {FALSE})

CallBoundaryVolume ==
    /\ pc = "input"
    /\ volume' = boundaryVolume(boundary1Type, boundary1)
    /\ pc' = "boundaryVolume"
    /\ UNCHANGED <<restVars, pairVars, clearance, distError, ret, direction,
                   intersection, rayVars, point, bSurface>>

NextVolume == CallBoundaryVolume

SpecVolume == InitVolume /\ [][NextVolume]_vars

\* C27: boundaryVolume of a sphere of radius r equals (4/3) * pi * r^3, the
\* factor being the fraction four thirds and not the quotient of the
\* integers 4 and 3.
C27_SphereVolumeIsFourThirdsPiRCubed ==
    (pc = "boundaryVolume" /\ boundary1Type = SPHERE) =>
        /\ 3 * volume.coef = 4 * boundary1[3] * boundary1[3] * boundary1[3]
        /\ volume.pi = 1
        /\ volume.root = FALSE

-----------------------------------------------------------------------------
(* bBoundaryIntersect on every pair of shapes, rectangles included *)

InitSymmetric ==
    InitPair({RECTANGLE, RECTANGULAR_BOX, SPHERE, CYLINDER},
             {RECTANGLE, RECTANGULAR_BOX, SPHERE, CYLINDER})

NextSymmetric == CallIntersect

SpecSymmetric == InitSymmetric /\ [][NextSymmetric]_vars

\* C28: bBoundaryIntersect is symmetric in its two shapes: for every pair of
\* shape types and parameters and every clearance the call with the shapes
\* exchanged returns the same, also when one shape is a rectangle and the
\* other a box, a sphere or a cylinder.
C28_IntersectIsSymmetric ==
    pc = "bBoundaryIntersect" =>
        ret = bBoundaryIntersect(boundary2Type, boundary2,
                                 boundary1Type, boundary1, clearance)

-----------------------------------------------------------------------------
(* Claims about the shape of the observation list *)

\* The last node reached from the head
LastNode(lst, h) == Nodes(h, lst.head)[Len(Nodes(h, lst.head))]

\* C29: after any sequence of initializeListObs3D, addObservation3D and
\* emptyListObs3D calls the observation list is well formed: head is NULL
\* exactly when tail is NULL, tail is the last node reachable from head, and
\* the observations added since the list was emptied are those reachable
\* from head (one added after the emptying is the only element).
C29_ListIsWellFormed ==
    (pc = "list" /\ fatal = NoError) =>
        /\ list.head = NULL <=> list.tail = NULL
        /\ list.head # NULL => list.tail = LastNode(list, heap)
        /\ Len(traverse3D(list, heap)) = Len(given)

-----------------------------------------------------------------------------
(* bLineHitBoundary on a cylinder of positive length *)

InitCylinderHit == InitRay({CYLINDER})

NextCylinderHit == CallLineHit

SpecCylinderHit == InitCylinderHit /\ [][NextCylinderHit]_vars

\* C30: whenever bLineHitBoundary reports a hit on a cylinder of non-zero
\* length, for a start point inside or outside the cylinder, the returned
\* intersection point lies on the surface of the cylinder: a hit on an end
\* cap has a radial distance <= radius, a hit on the mantle has its axial
\* coordinate in [anchor, anchor + length].
C30_CylinderHitLiesOnSurface ==
    (/\ pc = "bLineHitBoundary"
     /\ boundary1Type = CYLINDER
     /\ boundary1[5] > 0
     /\ ret = TRUE)
        => IF IsCap(boundary1, planeID)
           THEN NSqrtLeq(RadialSq(intersectPoint, boundary1), NInt(boundary1[3]))
           ELSE Between(intersectPoint[Along(boundary1[4])],
                        boundary1[Along(boundary1[4])],
                        boundary1[Along(boundary1[4])] + boundary1[5])

=============================================================================
